---- MODULE Spec2Model ----
(***************************************************************************)
(* Regex -> postfix -> Thompson NFA -> subset construction -> Hopcroft.    *)
(* Model of src/src/parser.py, thompson.py, automaton.py and hopcroft.py.  *)
(*                                                                         *)
(* Text is a sequence of one-character strings.  An Automaton is a record  *)
(* [states, alphabet, initial, accepts, transitions]; the Python dict      *)
(* state -> symbol -> set of destinations is the set of triples            *)
(* <<src, symbol, dest>> (add_state creates the empty dict of a state and  *)
(* add_transition only ever creates non-empty destination sets).           *)
(***************************************************************************)
EXTENDS Integers, Sequences, FiniteSets, TLC

VARIABLES
    entry,      \* public function the run starts at: "regex", "postfix" or "automaton"
    stage,      \* position of the run in the pipeline
    regex,      \* argument of to_postfix
    postfix,    \* result of to_postfix / argument of postfix_to_nfa
    err,        \* exception that ended the run ("" while none was raised)
    nfa,        \* result of postfix_to_nfa / the automaton determinize is called on
    dfa,        \* result of determinize / argument of minimize_hopcroft (mutated by it)
    sameObj,    \* TRUE when determinize returned its receiver (dfa is nfa)
    dfaIn,      \* the argument of minimize_hopcroft as it was at the call
    P, W,       \* locals of minimize_hopcroft: partition and worklist
    min_dfa,    \* result of minimize_hopcroft
    min_dfa2,   \* result of minimize_hopcroft(min_dfa)
    aut,        \* the automaton a sequence of direct calls works on
    call,       \* the last direct call made on aut
    debug,      \* the interpreter's __debug__ (FALSE under python -O)
    exported,   \* the records automaton_to_dict returned for nfa, dfa and min_dfa
    epsilon_cache, \* aut._epsilon_cache: the pairs <<state, closure>> memoised
    returned    \* the last epsilon_closure call on aut: its argument and the set it returned

vars == <<entry, stage, regex, postfix, err, nfa, dfa, sameObj, dfaIn, P, W, min_dfa,
          min_dfa2, aut, call, debug, exported, epsilon_cache, returned>>

(***************************************************************************)
(* Bounds of the model.                                                    *)
(***************************************************************************)
MaxEdges == 3       \* transitions of an input NFA
MaxStrLen == 4      \* length of the simulated input strings
MaxRegexLen == 4    \* length of an input regex (the scenarios apart)
MaxPostfixLen == 4  \* length of an input postfix stream
MaxBuildStates == 2 \* states add_state may bring an automaton to
MaxBuildEdges == 3  \* transitions add_transition may bring an automaton to
MaxBuildPostfixLen == 3 \* length of a postfix stream in a sequence of direct calls
MaxParserLen == 4   \* length of a regex handed to to_postfix alone
MaxPathLen == 3     \* length of an input of simulate_dfa_path

(***************************************************************************)
(* automaton.py: data model                                                *)
(***************************************************************************)
EPSILON == "ε"
None == "<None>"

\* The characters of the model, in code point order (Python's sorted()).
CharOrder ==
    <<"\t", "\n", "\r", " ", "$", "(", ")", "*", "+", ",", "-", ".",
      "0", "1", "2", "3", "4", "5", "6", "7", "8", "9", "?",
      "A", "B", "C", "D", "E", "F", "G", "H", "I", "J", "K", "L", "M",
      "N", "O", "P", "Q", "R", "S", "T", "U", "V", "W", "X", "Y", "Z",
      "[", "\\", "]", "^",
      "a", "b", "c", "d", "e", "f", "g", "h", "i", "j", "k", "l", "m",
      "n", "o", "p", "q", "r", "s", "t", "u", "v", "w", "x", "y", "z",
      "{", "|", "}", "ε">>

sorted(S) == SelectSeq(CharOrder, LAMBDA c : c \in S)

Automaton ==
    [states |-> {}, alphabet |-> {}, initial |-> None, accepts |-> {},
     transitions |-> {}]

add_state(A, name, accept, initial) ==
    [A EXCEPT !.states = @ \cup {name},
              !.accepts = IF accept THEN @ \cup {name} ELSE @,
              !.initial = IF initial THEN name ELSE @]

\* add_transition raises ValueError, changing nothing, on an unknown state.
add_transition_raises(A, src, dest) ==
    src \notin A.states \/ dest \notin A.states

add_transition(A, src, symbol, dest) ==
    IF add_transition_raises(A, src, dest) THEN A
    ELSE [A EXCEPT !.alphabet = IF symbol # EPSILON THEN @ \cup {symbol} ELSE @,
                   !.transitions = @ \cup {<<src, symbol, dest>>}]

get_transitions(A, state, symbol) ==
    {t[3] : t \in {u \in A.transitions : u[1] = state /\ u[2] = symbol}}

RECURSIVE EpsilonReach(_, _)
EpsilonReach(A, closure) ==
    LET more == {t[3] : t \in {u \in A.transitions :
                                  u[1] \in closure /\ u[2] = EPSILON}}
    IN  IF more \subseteq closure THEN closure
        ELSE EpsilonReach(A, closure \cup more)

_epsilon_closure_single(A, state) == EpsilonReach(A, {state})

epsilon_closure(A, states) ==
    UNION {_epsilon_closure_single(A, s) : s \in states}

\* self._epsilon_cache, a set of pairs <<state, closure>>: "state in cache"
\* and "cache[state].copy()".
CacheHit(cache, state) == \E e \in cache : e[1] = state

CacheGet(cache, state) == (CHOOSE e \in cache : e[1] = state)[2]

\* _epsilon_closure_single with its memo: the memoised set on a hit, the set
\* computed from the transitions otherwise.
MemoSingle(A, cache, state) ==
    IF CacheHit(cache, state) THEN CacheGet(cache, state)
    ELSE _epsilon_closure_single(A, state)

\* epsilon_closure(states) with the memo, and the memo after the call.
MemoClosure(A, cache, states) ==
    UNION {MemoSingle(A, cache, s) : s \in states}

MemoAfter(A, cache, states) ==
    cache \cup {<<s, _epsilon_closure_single(A, s)>> :
                   s \in {t \in states : ~CacheHit(cache, t)}}

\* add_state clears the memo when the state is new.
CacheAfterAddState(A, cache, name) == IF name \in A.states THEN cache ELSE {}

\* A memo that outlives every new transition.
CacheAfterAddTransitionKept(cache, symbol) == cache

\* add_transition clears the memo when the transition is an epsilon one.
CacheAfterAddTransition(cache, symbol) ==
    IF symbol = EPSILON THEN {} ELSE cache

is_deterministic(A) ==
    /\ \A t \in A.transitions : t[2] # EPSILON
    /\ \A t \in A.transitions : Cardinality(get_transitions(A, t[1], t[2])) <= 1

is_dfa(A) == A.initial # None /\ is_deterministic(A)

(***************************************************************************)
(* automaton.py: simulation.  Each simulator raises ValueError when the    *)
(* automaton has no initial state (and the DFA ones when it is not         *)
(* deterministic); the operators below give the value otherwise returned.  *)
(***************************************************************************)
RECURSIVE NfaRun(_, _, _)
NfaRun(A, current, input_str) ==
    IF input_str = <<>> THEN current
    ELSE LET next_states ==
                 UNION {epsilon_closure(A, {dest}) :
                          dest \in UNION {get_transitions(A, s, Head(input_str)) :
                                            s \in current}}
         IN  IF next_states = {} THEN {}
             ELSE NfaRun(A, next_states, Tail(input_str))

simulate_nfa_raises(A) == A.initial = None

simulate_nfa(A, input_str) ==
    NfaRun(A, epsilon_closure(A, {A.initial}), input_str) \cap A.accepts # {}

simulate_dfa_raises(A) == ~is_deterministic(A) \/ A.initial = None

RECURSIVE DfaRun(_, _, _)
DfaRun(A, state, input_str) ==
    IF input_str = <<>> THEN state \in A.accepts
    ELSE LET dests == get_transitions(A, state, Head(input_str))
         IN  IF Cardinality(dests) # 1 THEN FALSE
             ELSE DfaRun(A, CHOOSE d \in dests : TRUE, Tail(input_str))

simulate_dfa(A, input_str) == DfaRun(A, A.initial, input_str)

\* A path simulation that, at an undefined transition, reports the state it
\* stopped in as if the input had ended there.
RECURSIVE DfaPathAcceptsStopped(_, _, _, _)
DfaPathAcceptsStopped(A, path, current, input_str) ==
    IF input_str = <<>> THEN <<path, current \in A.accepts>>
    ELSE LET dests == get_transitions(A, current, Head(input_str))
         IN  IF Cardinality(dests) # 1 THEN <<path, current \in A.accepts>>
             ELSE LET d == CHOOSE d \in dests : TRUE
                  IN  DfaPathAcceptsStopped(A, Append(path, d), d,
                                            Tail(input_str))

RECURSIVE DfaPath(_, _, _, _)
DfaPath(A, path, current, input_str) ==
    IF input_str = <<>> THEN <<path, current \in A.accepts>>
    ELSE LET dests == get_transitions(A, current, Head(input_str))
         IN  IF Cardinality(dests) # 1 THEN <<path, FALSE>>
             ELSE LET d == CHOOSE d \in dests : TRUE
                  IN  DfaPath(A, Append(path, d), d, Tail(input_str))

simulate_dfa_path(A, input_str) == DfaPath(A, <<A.initial>>, A.initial, input_str)

(***************************************************************************)
(* automaton.py: determinize (subset construction)                         *)
(***************************************************************************)
QName(n) == "q" \o ToString(n)

\* Position of a subset in the discovery order: mapping[frozen] is q<pos-1>.
MappingIndex(found, frozen) == CHOOSE i \in 1..Len(found) : found[i] = frozen

Move(A, current_set, sym) ==
    UNION {epsilon_closure(A, {dest}) :
             dest \in UNION {get_transitions(A, s, sym) : s \in current_set}}

\* The for-loop over sorted(self.alphabet) for one popped subset; st is
\* [found |-> subsets in discovery order (the keys of mapping, found[i]
\* named q<i-1>; used_names is Len(found)), out |-> the DFA being built].
RECURSIVE DeterminizeSyms(_, _, _, _)
DeterminizeSyms(A, st, current_set, syms) ==
    IF syms = <<>> THEN st
    ELSE LET sym == Head(syms)
             frozen == Move(A, current_set, sym)
             known == \E i \in 1..Len(st.found) : st.found[i] = frozen
             found1 == IF known THEN st.found ELSE Append(st.found, frozen)
             out1 == IF known THEN st.out
                     ELSE add_state(st.out, QName(Len(st.found)),
                                    frozen \cap A.accepts # {}, FALSE)
             dfa_src == QName(MappingIndex(found1, current_set) - 1)
             dfa_dst == QName(MappingIndex(found1, frozen) - 1)
         IN  IF frozen = {} THEN DeterminizeSyms(A, st, current_set, Tail(syms))
             ELSE DeterminizeSyms(
                      A,
                      [found |-> found1,
                       out |-> add_transition(out1, dfa_src, sym, dfa_dst)],
                      current_set, Tail(syms))

\* The while-loop over pending (FIFO): pending is found[head..].
RECURSIVE DeterminizeLoop(_, _, _)
DeterminizeLoop(A, st, head) ==
    IF head > Len(st.found) THEN st.out
    ELSE DeterminizeLoop(
             A, DeterminizeSyms(A, st, st.found[head], sorted(A.alphabet)),
             head + 1)

determinize_raises(A) == A.initial = None

\* A determinize that hands back its receiver whatever its transitions are.
determinize_returnsSelf(A) == A

determinize(A) ==
    IF is_deterministic(A) THEN A
    ELSE LET start_closure == epsilon_closure(A, {A.initial})
         IN  DeterminizeLoop(
                 A,
                 [found |-> <<start_closure>>,
                  out |-> add_state(Automaton, QName(0),
                                    start_closure \cap A.accepts # {}, TRUE)],
                 1)

(***************************************************************************)
(* automaton.py: remove_unreachable (mutates its receiver)                 *)
(***************************************************************************)
RECURSIVE Reach(_, _)
Reach(A, reachable) ==
    LET more == {t[3] : t \in {u \in A.transitions : u[1] \in reachable}}
    IN  IF more \subseteq reachable THEN reachable
        ELSE Reach(A, reachable \cup more)

remove_unreachable(A) ==
    IF A.initial = None THEN A
    ELSE LET reachable == Reach(A, {A.initial})
         IN  [A EXCEPT !.states = @ \cap reachable,
                       !.accepts = @ \cap reachable,
                       !.transitions = {t \in @ : t[1] \in reachable}]

(***************************************************************************)
(* automaton.py: add_transition under python -O, clone, relabel_sequential *)
(***************************************************************************)
\* With __debug__ false the check of the states is skipped: the symbol joins
\* the alphabet, then self.transitions[src] raises KeyError for an unknown
\* src, and an unknown dest is stored as it is.
add_transition_unchecked_raises(A, src) == src \notin A.states

add_transition_unchecked(A, src, symbol, dest) ==
    LET B == [A EXCEPT !.alphabet = IF symbol # EPSILON THEN @ \cup {symbol}
                                    ELSE @]
    IN  IF add_transition_unchecked_raises(A, src) THEN B
        ELSE [B EXCEPT !.transitions = @ \cup {<<src, symbol, dest>>}]

clone(A) ==
    [states |-> A.states, alphabet |-> A.alphabet, initial |-> A.initial,
     accepts |-> A.accepts, transitions |-> A.transitions]

\* The state names of the model in the order of Python's string comparison
\* (numbers below 20: "10" sorts between "1" and "2").
NameDigits ==
    <<"0", "1", "10", "11", "12", "13", "14", "15", "16", "17", "18", "19",
      "2", "3", "4", "5", "6", "7", "8", "9">>

NameOrder ==
    NameDigits \o [i \in 1..Len(NameDigits) |-> "m" \o NameDigits[i]]
               \o [i \in 1..Len(NameDigits) |-> "q" \o NameDigits[i]]
               \o [i \in 1..Len(NameDigits) |-> "s" \o NameDigits[i]]

sorted_names(S) == SelectSeq(NameOrder, LAMBDA n : n \in S)


\* "ordered": the initial state first, the other states in sorted order.
RelabelOrder(A) ==
    IF A.initial # None /\ A.initial \in A.states
    THEN <<A.initial>> \o sorted_names(A.states \ {A.initial})
    ELSE sorted_names(A.states)

\* mapping[s] = str(i) for the i-th state of ordered, counted from 0.
RelabelMapping(A, s) ==
    LET ordered == RelabelOrder(A)
    IN  ToString((CHOOSE i \in 1..Len(ordered) : ordered[i] = s) - 1)

\* mapping[d] raises KeyError for a destination that is not a state.
relabel_sequential_raises(A) == \E t \in A.transitions : t[3] \notin A.states

relabel_sequential(A) ==
    [states |-> {RelabelMapping(A, s) : s \in A.states},
     alphabet |-> {t[2] : t \in A.transitions} \ {EPSILON},
     initial |-> IF A.initial \in A.states THEN RelabelMapping(A, A.initial)
                 ELSE None,
     accepts |-> {RelabelMapping(A, s) : s \in A.accepts \cap A.states},
     transitions |-> {<<RelabelMapping(A, t[1]), t[2], RelabelMapping(A, t[3])>> :
                         t \in A.transitions}]

(***************************************************************************)
(* exporter.py: automaton_to_dict                                          *)
(***************************************************************************)
\* int(s) for a state name written by relabel_sequential.
StateNumber(s) == CHOOSE i \in 0..(Len(NameOrder) - 1) : ToString(i) = s

\* sorted(xs) for a set of integers.
RECURSIVE SortedInts(_)
SortedInts(xs) ==
    IF xs = {} THEN <<>>
    ELSE LET least == CHOOSE x \in xs : \A y \in xs : x <= y
         IN  <<least>> \o SortedInts(xs \ {least})

\* "ESTADOS": [int(s) for s in sorted(norm.states, key=int)]
ESTADOS(norm) == SortedInts({StateNumber(s) : s \in norm.states})

\* "INICIO": [int(norm.initial)] if norm.initial is not None else []
INICIO(norm) ==
    IF norm.initial # None THEN <<StateNumber(norm.initial)>> ELSE <<>>

\* "ACEPTACION": [int(s) for s in sorted(norm.accepts, key=int)]
ACEPTACION(norm) == SortedInts({StateNumber(s) : s \in norm.accepts})

\* label = "" if sym == EPSILON else sym
TransitionLabel(sym) == IF sym = EPSILON THEN "" ELSE sym

\* The orders in which "for d in dests" can meet the members of a set.
IterationOrders(dests) ==
    {f \in [1..Cardinality(dests) -> dests] :
        \A i, j \in 1..Cardinality(dests) : f[i] = f[j] => i = j}

\* The triples of one (src, sym) bucket, for one order of its destinations.
BucketTriples(a, src, sym, order) ==
    [k \in 1..Len(order) |->
        <<StateNumber(RelabelMapping(a, src)), TransitionLabel(sym),
          StateNumber(RelabelMapping(a, order[k]))>>]

\* The (src, sym) keys of norm.transitions in the order the two outer loops
\* meet them: the states as relabel_sequential numbered them, and for each
\* state its symbols in the order labels gives (their insertion order).
RECURSIVE TransitionKeys(_, _, _, _)
TransitionKeys(a, labels, i, k) ==
    IF i > Len(RelabelOrder(a)) THEN <<>>
    ELSE IF k > Len(labels[RelabelOrder(a)[i]])
    THEN TransitionKeys(a, labels, i + 1, 1)
    ELSE <<(<<RelabelOrder(a)[i], labels[RelabelOrder(a)[i]][k]>>)>>
             \o TransitionKeys(a, labels, i, k + 1)

\* The values trans_list can have: the buckets in the order of keys, each
\* bucket in any order of its set of destinations.
RECURSIVE trans_list(_, _)
trans_list(a, keys) ==
    IF keys = <<>> THEN {<<>>}
    ELSE {BucketTriples(a, keys[1][1], keys[1][2], order) \o rest :
             order \in IterationOrders(get_transitions(a, keys[1][1], keys[1][2])),
             rest \in trans_list(a, Tail(keys))}

\* "SIMBOLOS": sorted(sym for sym in norm.alphabet)
SIMBOLOS(norm) == sorted(norm.alphabet)

\* The records automaton_to_dict(a) can return, labels giving for each state
\* of a its symbols in the insertion order of a.transitions[state].
automaton_to_dict(a, labels) ==
    {[ESTADOS |-> ESTADOS(relabel_sequential(a)),
      SIMBOLOS |-> SIMBOLOS(relabel_sequential(a)),
      INICIO |-> INICIO(relabel_sequential(a)),
      ACEPTACION |-> ACEPTACION(relabel_sequential(a)),
      TRANSICIONES |-> triples] :
        triples \in trans_list(a, TransitionKeys(a, labels, 1, 1))}

(***************************************************************************)
(* hopcroft.py: minimize_hopcroft                                          *)
(***************************************************************************)
MName(mcount) == "m" \o ToString(mcount)

minimize_hopcroft_raises(A) == ~is_deterministic(A) \/ A.initial = None

\* A lookup that never finds the destination.
target_notFound(A, src, sym) == None

target(A, src, sym) ==
    LET ts == get_transitions(A, src, sym)
    IN  IF Cardinality(ts) = 1 THEN CHOOSE d \in ts : TRUE ELSE None

InList(Y, L) == \E i \in 1..Len(L) : L[i] = Y

\* A remove that leaves the list as it is.
ListRemoveNothing(L, Y) == L

\* list.remove: drops the first element equal to Y.
ListRemove(L, Y) ==
    LET i == CHOOSE j \in 1..Len(L) : L[j] = Y /\ \A k \in 1..(j - 1) : L[k] # Y
    IN  SubSeq(L, 1, i - 1) \o SubSeq(L, i + 1, Len(L))

\* Initial partition and worklist (hopcroft.py lines 15-22).
InitialP(A) ==
    LET F == A.accepts
        NF == A.states \ F
    IN  IF NF # {} THEN <<F, NF>> ELSE <<F>>

InitialW(A) == <<A.accepts>>

\* The loop "for Y in P" for one preimage X; st is [P |-> new_P, W |-> W].
RECURSIVE RefineBlocks(_, _, _, _)
RefineBlocks(oldP, i, X, st) ==
    IF i > Len(oldP) THEN st
    ELSE LET Y == oldP[i]
             inter == Y \cap X
             diff == Y \ X
         IN  IF inter # {} /\ diff # {}
             THEN RefineBlocks(
                      oldP, i + 1, X,
                      [P |-> st.P \o <<inter, diff>>,
                       W |-> IF InList(Y, st.W)
                             THEN ListRemove(st.W, Y) \o <<inter, diff>>
                             ELSE IF Cardinality(inter) <= Cardinality(diff)
                                  THEN Append(st.W, inter)
                                  ELSE Append(st.W, diff)])
             ELSE RefineBlocks(oldP, i + 1, X,
                               [P |-> Append(st.P, Y), W |-> st.W])

\* The loop "for sym in alphabet" for one popped block A_.
RECURSIVE RefineSyms(_, _, _, _)
RefineSyms(D, A_, syms, st) ==
    IF syms = <<>> THEN st
    ELSE LET X == {q \in D.states : target(D, q, Head(syms)) \in A_}
         IN  IF X = {} THEN RefineSyms(D, A_, Tail(syms), st)
             ELSE RefineSyms(D, A_, Tail(syms),
                             RefineBlocks(st.P, 1, X, [P |-> <<>>, W |-> st.W]))

\* An iteration that pops nothing and refines nothing.
RefineStepNoPop(D, Pc, Wc) == [P |-> Pc, W |-> Wc]

\* One iteration of "while W": A = W.pop() takes the last element.
RefineStep(D, Pc, Wc) ==
    RefineSyms(D, Wc[Len(Wc)], sorted(D.alphabet),
               [P |-> Pc, W |-> SubSeq(Wc, 1, Len(Wc) - 1)])

\* Names of the blocks of P, in order (hopcroft.py lines 61-73).
RECURSIVE BlockNames(_, _, _)
BlockNames(Pc, i, mcount) ==
    IF i > Len(Pc) THEN <<>>
    ELSE IF Cardinality(Pc[i]) = 1
         THEN <<CHOOSE s \in Pc[i] : TRUE>> \o BlockNames(Pc, i + 1, mcount)
         ELSE <<MName(mcount)>> \o BlockNames(Pc, i + 1, mcount + 1)

\* rep_map[s]: the name of the block holding s (the blocks are disjoint).
RepMap(Pc, names, s) == names[CHOOSE i \in 1..Len(Pc) : s \in Pc[i]]

RECURSIVE AddBlockStates(_, _, _, _, _)
AddBlockStates(M, D, Pc, names, i) ==
    IF i > Len(Pc) THEN M
    ELSE AddBlockStates(
             add_state(M, names[i], Pc[i] \cap D.accepts # {},
                       D.initial \in Pc[i]),
             D, Pc, names, i + 1)

\* A construction that copies no transition.
AddBlockTransitionsNone(M, Pc, names, todo) == M

RECURSIVE AddBlockTransitions(_, _, _, _)
AddBlockTransitions(M, Pc, names, todo) ==
    IF todo = {} THEN M
    ELSE LET t == CHOOSE u \in todo : TRUE
         IN  AddBlockTransitions(
                 add_transition(M, RepMap(Pc, names, t[1]), t[2],
                                RepMap(Pc, names, t[3])),
                 Pc, names, todo \ {t})

\* Construction of the minimal DFA (hopcroft.py lines 58-88).
BuildMinDfa(D, Pc) ==
    LET names == BlockNames(Pc, 1, 0)
    IN  AddBlockTransitions(
            AddBlockStates(Automaton, D, Pc, names, 1), Pc, names,
            {t \in D.transitions :
                Cardinality(get_transitions(D, t[1], t[2])) = 1})

\* The symbols of a.transitions[s] in sorted order, epsilon last.
SortedLabels(a, s) ==
    sorted({t[2] : t \in {u \in a.transitions : u[1] = s}} \ {EPSILON})
        \o (IF get_transitions(a, s, EPSILON) # {} THEN <<EPSILON>> ELSE <<>>)

\* The insertion order of a.transitions[s] for an automaton postfix_to_nfa
\* or determinize built: a state of postfix_to_nfa has transitions on one
\* symbol only, and determinize adds the transitions of a state in the order
\* of sorted(self.alphabet).
InsertionLabels(a) == [s \in a.states |-> SortedLabels(a, s)]

\* The names postfix_to_nfa and determinize give, in the order of creation,
\* which is the order of the keys of transitions.
CreatedNames ==
    [i \in 1..Len(NameDigits) |-> "q" \o ToString(i - 1)]
        \o [i \in 1..Len(NameDigits) |-> "s" \o ToString(i - 1)]

creation_order(D) == SelectSeq(CreatedNames, LAMBDA n : n \in D.states)

RECURSIVE ConcatLabels(_, _)
ConcatLabels(D, states) ==
    IF states = <<>> THEN <<>>
    ELSE SortedLabels(D, Head(states)) \o ConcatLabels(D, Tail(states))

\* seq without the later occurrences of each element.
FirstOccurrences(seq) ==
    LET keep == SortedInts({i \in 1..Len(seq) :
                               \A j \in 1..(i - 1) : seq[j] # seq[i]})
    IN  [k \in 1..Len(keep) |-> seq[keep[k]]]

\* The insertion order of min_dfa.transitions[m]: the loop of lines 82-87
\* goes through the states of the DFA in the order of its keys and through
\* the symbols of each state in their order, and a symbol is inserted at the
\* first state of the block that has it.
MinDfaLabels(D, Pc) ==
    [m \in {BlockNames(Pc, 1, 0)[i] : i \in 1..Len(Pc)} |->
        FirstOccurrences(
            ConcatLabels(D, SelectSeq(creation_order(D),
                LAMBDA s : RepMap(Pc, BlockNames(Pc, 1, 0), s) = m)))]

\* The loop "while W" run to its end: the final partition.
RECURSIVE RefineLoop(_, _, _)
RefineLoop(D, Pc, Wc) ==
    IF Wc = <<>> THEN Pc
    ELSE LET st == RefineStep(D, Pc, Wc)
         IN  RefineLoop(D, st.P, st.W)

\* minimize_hopcroft as one call, for an argument that does not raise.
minimize_hopcroft(A) ==
    LET D == remove_unreachable(A)
    IN  BuildMinDfa(D, RefineLoop(D, InitialP(D), InitialW(D)))

(***************************************************************************)
(* parser.py: to_postfix.  A function that raises RegexValidationError     *)
(* returns [err |-> "RegexValidationError", ...] here.                     *)
(***************************************************************************)
OP_UNARY == {"*", "+", "?"}
OP_BINARY == {"|", "."}
PRECEDENCE == [op \in {"|", ".", "*", "+", "?"} |->
                  IF op = "|" THEN 1 ELSE IF op = "." THEN 2 ELSE 3]
RIGHT_ASSOC == {"*", "+", "?"}
EPSILON_SYMBOLS == {"ε", "e"}
SPECIAL_CHARS ==
    {"|", "*", "+", "?", "(", ")", "[", "]", "{", "}", "\\", "^", "$", ".", "-"}
VALID_ESCAPE_CHARS ==
    {"n", "t", "r", "\\", "(", ")", "[", "]", "{", "}", "|", "*", "+", "?", ".",
     "^", "$"}
MaxRegexLength == 1000

ascii_letters ==
    <<"a", "b", "c", "d", "e", "f", "g", "h", "i", "j", "k", "l", "m",
      "n", "o", "p", "q", "r", "s", "t", "u", "v", "w", "x", "y", "z",
      "A", "B", "C", "D", "E", "F", "G", "H", "I", "J", "K", "L", "M",
      "N", "O", "P", "Q", "R", "S", "T", "U", "V", "W", "X", "Y", "Z">>
digits == <<"0", "1", "2", "3", "4", "5", "6", "7", "8", "9">>

Range(seq) == {seq[i] : i \in 1..Len(seq)}

\* str.isalnum() on one character of the model.
isalnum(c) == c \in Range(ascii_letters) \cup Range(digits) \cup {"ε"}

\* The scan of validate_regex (parser.py lines 46-87): TRUE iff it raises.
\* i is the 1-based position, cnt the three nesting counters.
RECURSIVE ValidateScanRaises(_, _, _)
ValidateScanRaises(r, i, cnt) ==
    IF i > Len(r)
    THEN cnt.paren # 0 \/ cnt.bracket # 0 \/ cnt.brace # 0
    ELSE LET char == r[i]
         IN  IF char = "\\"
             THEN IF i + 1 > Len(r) THEN TRUE
                  ELSE IF r[i + 1] \notin VALID_ESCAPE_CHARS THEN TRUE
                  ELSE ValidateScanRaises(r, i + 2, cnt)
             ELSE IF char = "(" THEN
                 ValidateScanRaises(r, i + 1, [cnt EXCEPT !.paren = @ + 1])
             ELSE IF char = ")" THEN
                 IF cnt.paren - 1 < 0 THEN TRUE
                 ELSE ValidateScanRaises(r, i + 1, [cnt EXCEPT !.paren = @ - 1])
             ELSE IF char = "[" THEN
                 ValidateScanRaises(r, i + 1, [cnt EXCEPT !.bracket = @ + 1])
             ELSE IF char = "]" THEN
                 IF cnt.bracket - 1 < 0 THEN TRUE
                 ELSE ValidateScanRaises(r, i + 1, [cnt EXCEPT !.bracket = @ - 1])
             ELSE IF char = "{" THEN
                 ValidateScanRaises(r, i + 1, [cnt EXCEPT !.brace = @ + 1])
             ELSE IF char = "}" THEN
                 IF cnt.brace - 1 < 0 THEN TRUE
                 ELSE ValidateScanRaises(r, i + 1, [cnt EXCEPT !.brace = @ - 1])
             ELSE ValidateScanRaises(r, i + 1, cnt)

RECURSIVE _remove_escapes(_)
_remove_escapes(r) ==
    IF r = <<>> THEN <<>>
    ELSE IF r[1] = "\\" /\ Len(r) >= 2
         THEN <<"a">> \o _remove_escapes(SubSeq(r, 3, Len(r)))
         ELSE <<r[1]>> \o _remove_escapes(Tail(r))

\* _validate_operators: TRUE iff it raises.
_validate_operators_raises(r) ==
    LET c == _remove_escapes(r)
    IN  \E i \in 1..Len(c) :
            \/ /\ c[i] \in {"*", "+", "?"}
               /\ \/ i = 1
                  \/ c[i - 1] \in {"|", "("}
                  \/ c[i - 1] \in {"*", "+", "?"}
            \/ /\ c[i] = "|"
               /\ \/ i = 1
                  \/ i = Len(c)
                  \/ c[i - 1] \in {"|", "("}
                  \/ c[i + 1] \in {"|", ")"}

\* validate_regex with the length test "len(regex) >= 1000".
validate_regex_rule_lengthInclusive(r) ==
    IF r = <<>> THEN "empty"
    ELSE IF Len(r) >= MaxRegexLength THEN "length"
    ELSE IF ValidateScanRaises(r, 1, [paren |-> 0, bracket |-> 0, brace |-> 0])
    THEN "scan"
    ELSE IF _validate_operators_raises(r) THEN "operators"
    ELSE ""

\* The rule of validate_regex that raises on r, "" when none does.
validate_regex_rule(r) ==
    IF r = <<>> THEN "empty"
    ELSE IF Len(r) > MaxRegexLength THEN "length"
    ELSE IF ValidateScanRaises(r, 1, [paren |-> 0, bracket |-> 0, brace |-> 0])
    THEN "scan"
    ELSE IF _validate_operators_raises(r) THEN "operators"
    ELSE ""

validate_regex_raises(r) == validate_regex_rule(r) # ""

Raised == [err |-> "RegexValidationError", out |-> <<>>]

Returned(out) == [err |-> "", out |-> out]

\* '|'.join(chars) over the positions lo..hi, the range halved at each step.
RECURSIVE JoinBarRange(_, _, _)
JoinBarRange(chars, lo, hi) ==
    IF lo > hi THEN <<>>
    ELSE IF lo = hi
    THEN IF lo < Len(chars) THEN <<chars[lo], "|">> ELSE <<chars[lo]>>
    ELSE JoinBarRange(chars, lo, (lo + hi) \div 2)
             \o JoinBarRange(chars, (lo + hi) \div 2 + 1, hi)

JoinBar(chars) == JoinBarRange(chars, 1, Len(chars))

\* \n, \t and \r name their control characters, any other escape itself.
EscapedChar(next_char) ==
    IF next_char = "n" THEN "\n"
    ELSE IF next_char = "t" THEN "\t"
    ELSE IF next_char = "r" THEN "\r"
    ELSE next_char

\* ord() on the characters of the model.
ord(c) == CHOOSE k \in 1..Len(CharOrder) : CharOrder[k] = c

\* The loop of _expand_char_class: [err, chars].  A range adds the characters
\* of the model between its two ends.
RECURSIVE ClassChars(_, _, _)
ClassChars(char_class, i, chars) ==
    IF i > Len(char_class) THEN [err |-> "", chars |-> chars]
    ELSE IF char_class[i] = "\\" /\ i + 1 <= Len(char_class)
    THEN ClassChars(char_class, i + 2,
                    chars \cup {EscapedChar(char_class[i + 1])})
    ELSE IF i + 2 <= Len(char_class) /\ char_class[i + 1] = "-"
    THEN IF ord(char_class[i]) > ord(char_class[i + 2])
         THEN [err |-> "RegexValidationError", chars |-> {}]
         ELSE ClassChars(char_class, i + 3,
                         chars \cup {CharOrder[k] :
                                        k \in ord(char_class[i])..
                                              ord(char_class[i + 2])})
    ELSE ClassChars(char_class, i + 1, chars \cup {char_class[i]})

_expand_char_class(char_class) ==
    IF char_class = <<>> THEN Raised
    ELSE LET c == ClassChars(char_class, 1, {})
         IN  IF c.err # "" \/ c.chars = {} THEN Raised
             ELSE Returned(JoinBar(sorted(c.chars)))

\* "while j < len(regex) and regex[j] != ']'": the position the search for
\* the closing bracket stops at.
RECURSIVE ClassEnd(_, _)
ClassEnd(r, j) ==
    IF j <= Len(r) /\ r[j] # "]"
    THEN IF r[j] = "\\" THEN ClassEnd(r, j + 2) ELSE ClassEnd(r, j + 1)
    ELSE j

RECURSIVE ExpandClassesLoop(_, _, _)
ExpandClassesLoop(r, i, result) ==
    IF i > Len(r) THEN Returned(result)
    ELSE IF r[i] = "\\" /\ i + 1 <= Len(r)
    THEN ExpandClassesLoop(r, i + 2, result \o <<r[i], r[i + 1]>>)
    ELSE IF r[i] = "["
    THEN LET j == ClassEnd(r, i + 1)
         IN  IF j > Len(r) THEN Raised
             ELSE LET expanded == _expand_char_class(SubSeq(r, i + 1, j - 1))
                  IN  IF expanded.err # "" THEN Raised
                      ELSE ExpandClassesLoop(
                               r, j + 1,
                               result \o <<"(">> \o expanded.out \o <<")">>)
    ELSE ExpandClassesLoop(r, i + 1, Append(result, r[i]))

\* expand_character_classes: [err, out].
expand_character_classes(r) == ExpandClassesLoop(r, 1, <<>>)

\* ''.join(elements)
RECURSIVE Join(_)
Join(elements) ==
    IF elements = <<>> THEN <<>> ELSE Head(elements) \o Join(Tail(elements))

\* str.strip() on the white space of the model.
WhiteSpace == {" ", "\t", "\n", "\r"}

RECURSIVE strip(_)
strip(text) ==
    IF text # <<>> /\ Head(text) \in WhiteSpace THEN strip(Tail(text))
    ELSE IF text # <<>> /\ text[Len(text)] \in WhiteSpace
    THEN strip(SubSeq(text, 1, Len(text) - 1))
    ELSE text

DigitValue(c) == CHOOSE k \in 0..9 : digits[k + 1] = c

RECURSIVE DigitsValue(_, _)
DigitsValue(text, acc) ==
    IF text = <<>> THEN acc
    ELSE IF Head(text) = "_" THEN DigitsValue(Tail(text), acc)
    ELSE DigitsValue(Tail(text), 10 * acc + DigitValue(Head(text)))

\* The text int() accepts after stripping it and taking the sign off.
IsIntBody(body) ==
    /\ body # <<>>
    /\ \A i \in 1..Len(body) : body[i] \in Range(digits) \cup {"_"}
    /\ body[1] # "_"
    /\ body[Len(body)] # "_"
    /\ \A i \in 1..(Len(body) - 1) : ~(body[i] = "_" /\ body[i + 1] = "_")

Signed(stripped) == stripped # <<>> /\ Head(stripped) \in {"+", "-"}

IntOfBody(body, negative) ==
    IF ~IsIntBody(body) THEN [err |-> "ValueError", value |-> 0]
    ELSE [err |-> "",
          value |-> IF negative THEN 0 - DigitsValue(body, 0)
                    ELSE DigitsValue(body, 0)]

IntOfStripped(stripped) ==
    IF Signed(stripped)
    THEN IntOfBody(Tail(stripped), Head(stripped) = "-")
    ELSE IntOfBody(stripped, FALSE)

\* int(text): [err, value]; err is "ValueError" when int() raises.
int(text) == IntOfStripped(strip(text))

\* quantifier.split(',')
RECURSIVE split(_, _)
split(text, current) ==
    IF text = <<>> THEN <<current>>
    ELSE IF Head(text) = "," THEN <<current>> \o split(Tail(text), <<>>)
    ELSE split(Tail(text), Append(current, Head(text)))

\* "int(part) if part else default"
IntOrDefault(part, default) ==
    IF part # <<>> THEN int(part) ELSE [err |-> "", value |-> default]

BadQuantifier == [err |-> "RegexValidationError", min_rep |-> 0, max_rep |-> 0]

BoundsFrom(lo, hi) ==
    IF lo.err # "" \/ hi.err # "" THEN BadQuantifier
    ELSE [err |-> "", min_rep |-> lo.value, max_rep |-> hi.value]

\* The {n,m} format: parts is quantifier.split(',').
RangeBounds(parts) ==
    IF Len(parts) # 2 THEN BadQuantifier
    ELSE BoundsFrom(IntOrDefault(parts[1], 0),
                    IntOrDefault(parts[2], IntOrDefault(parts[1], 0).value + 5))

\* The bounds of a quantifier body: [err, min_rep, max_rep].
QuantifierBounds(quantifier) ==
    IF "," \in Range(quantifier) THEN RangeBounds(split(quantifier, <<>>))
    ELSE BoundsFrom(int(quantifier), int(quantifier))

\* "while start >= 0 and paren_count > 0": the 1-based index of the first
\* element of the group that ends the list.
RECURSIVE GroupStart(_, _, _)
GroupStart(preceding, start, paren_count) ==
    IF start >= 1 /\ paren_count > 0
    THEN GroupStart(preceding, start - 1,
                    IF preceding[start] = <<")">> THEN paren_count + 1
                    ELSE IF preceding[start] = <<"(">> THEN paren_count - 1
                    ELSE paren_count)
    ELSE start + 1

RECURSIVE Repeat(_, _)
Repeat(element, n) ==
    IF n <= 0 THEN <<>> ELSE <<element>> \o Repeat(element, n - 1)

\* _expand_quantifier: [err, out]; preceding and out are lists of texts.
_expand_quantifier(preceding, quantifier) ==
    LET b == QuantifierBounds(quantifier)
    IN  IF b.err # "" THEN Raised
        ELSE IF b.min_rep < 0 \/ b.max_rep < 0 \/ b.min_rep > b.max_rep
        THEN Raised
        ELSE IF b.max_rep > 20 THEN Raised
        ELSE LET n == Len(preceding)
                 isGroup == n > 0 /\ preceding[n] = <<")">>
                 start == IF isGroup THEN GroupStart(preceding, n - 1, 1)
                          ELSE n
                 element == IF isGroup THEN Join(SubSeq(preceding, start, n))
                            ELSE IF n > 0 THEN preceding[n] ELSE <<>>
                 result == SubSeq(preceding, 1, start - 1)
             IN  Returned(
                     result \o Repeat(element, b.min_rep)
                         \o (IF b.min_rep = b.max_rep THEN <<>>
                             ELSE Repeat(<<"(">> \o element \o <<")", "?">>,
                                         b.max_rep - b.min_rep)))

\* "while j < len(regex) and regex[j] != '}'"
RECURSIVE QuantifierEnd(_, _)
QuantifierEnd(r, j) ==
    IF j <= Len(r) /\ r[j] # "}" THEN QuantifierEnd(r, j + 1) ELSE j

RECURSIVE ExpandQuantifiersLoop(_, _, _)
ExpandQuantifiersLoop(r, i, result) ==
    IF i > Len(r) THEN Returned(Join(result))
    ELSE IF r[i] = "\\" /\ i + 1 <= Len(r)
    THEN ExpandQuantifiersLoop(r, i + 2, Append(result, <<r[i], r[i + 1]>>))
    ELSE IF r[i] = "{"
    THEN IF result = <<>> THEN Raised
         ELSE LET j == QuantifierEnd(r, i + 1)
              IN  IF j > Len(r) THEN Raised
                  ELSE LET expanded ==
                               _expand_quantifier(result,
                                                  SubSeq(r, i + 1, j - 1))
                       IN  IF expanded.err # "" THEN Raised
                           ELSE ExpandQuantifiersLoop(r, j + 1, expanded.out)
    ELSE ExpandQuantifiersLoop(r, i + 1, Append(result, <<r[i]>>))

\* expand_quantifiers: [err, out].
expand_quantifiers(r) == ExpandQuantifiersLoop(r, 1, <<>>)

RECURSIVE process_special_chars(_)
process_special_chars(r) ==
    IF r = <<>> THEN <<>>
    ELSE IF r[1] = "\\" /\ Len(r) >= 2
         THEN LET next_char == r[2]
                  out == IF next_char = "n" THEN "\n"
                         ELSE IF next_char = "t" THEN "\t"
                         ELSE IF next_char = "r" THEN "\r"
                         ELSE next_char
              IN  <<out>> \o process_special_chars(SubSeq(r, 3, Len(r)))
         ELSE IF r[1] = "."
         THEN <<"(">> \o JoinBar(ascii_letters \o digits) \o <<")">>
                  \o process_special_chars(Tail(r))
         ELSE <<r[1]>> \o process_special_chars(Tail(r))

\* Step 5: the characters allowed after processing.
ValidProcessedChar(c) ==
    isalnum(c) \/ c \in {"|", "*", "+", "?", "(", ")", "ε", "e", " ", "\n", "\t",
                        "\r", "\\"}

\* Step 6: regex.replace(" ", "") and one token for each character.
Tokenize(r) == SelectSeq(r, LAMBDA c : c # " ")

\* Step 7: explicit concatenation operators.
NeedsConcat(a, b) ==
    \/ /\ a \notin {"|", "(", ")", "*", "+", "?"}
       /\ b \notin {"|", ")", "*", "+", "?"}
    \/ /\ a \in {"*", "+", "?", ")"}
       /\ b \notin {"|", ")", "*", "+", "?"}

\* "for idx, t in enumerate(tokens)" over the positions lo..hi, the range
\* halved at each step: the token, then "." where the next token needs it.
RECURSIVE InsertConcatRange(_, _, _)
InsertConcatRange(tokens, lo, hi) ==
    IF lo > hi THEN <<>>
    ELSE IF lo = hi
    THEN IF lo < Len(tokens) /\ NeedsConcat(tokens[lo], tokens[lo + 1])
         THEN <<tokens[lo], ".">>
         ELSE <<tokens[lo]>>
    ELSE InsertConcatRange(tokens, lo, (lo + hi) \div 2)
             \o InsertConcatRange(tokens, (lo + hi) \div 2 + 1, hi)

InsertConcat(tokens) == InsertConcatRange(tokens, 1, Len(tokens))

\* Step 8: "while stack and stack[-1] != '(' and (...): output.append(stack.pop())"
RECURSIVE PopOperators(_, _)
PopOperators(st, t) ==
    LET n == Len(st.stack)
    IN  IF /\ n > 0
           /\ st.stack[n] # "("
           /\ \/ PRECEDENCE[st.stack[n]] > PRECEDENCE[t]
              \/ /\ PRECEDENCE[st.stack[n]] = PRECEDENCE[t]
                 /\ t \notin RIGHT_ASSOC
        THEN PopOperators([st EXCEPT !.output = Append(@, st.stack[n]),
                                     !.stack = SubSeq(@, 1, n - 1)], t)
        ELSE st

\* "while stack and stack[-1] != '(': output.append(stack.pop())"
RECURSIVE PopToParen(_)
PopToParen(st) ==
    LET n == Len(st.stack)
    IN  IF n > 0 /\ st.stack[n] # "("
        THEN PopToParen([st EXCEPT !.output = Append(@, st.stack[n]),
                                   !.stack = SubSeq(@, 1, n - 1)])
        ELSE st

\* One iteration of the shunting-yard loop on token t; st is
\* [output, stack, err], and a raise ends the loop.
ShuntingYardToken(st, t) ==
    IF st.err # "" THEN st
    ELSE IF t = "(" THEN [st EXCEPT !.stack = Append(@, t)]
    ELSE IF t = ")" THEN
        LET p == PopToParen(st)
        IN  IF p.stack = <<>>
            THEN [p EXCEPT !.err = "RegexValidationError"]
            ELSE [p EXCEPT !.stack = SubSeq(@, 1, Len(@) - 1)]
    ELSE IF t \in DOMAIN PRECEDENCE THEN
        LET p == PopOperators(st, t)
        IN  [p EXCEPT !.stack = Append(@, t)]
    ELSE [st EXCEPT !.output =
              Append(@, IF t \in EPSILON_SYMBOLS THEN "ε" ELSE t)]

\* "for t in augmented", the tokens taken in order and the list halved at
\* each step.
RECURSIVE ShuntingYard(_, _)
ShuntingYard(st, augmented) ==
    IF augmented = <<>> THEN st
    ELSE IF Len(augmented) = 1 THEN ShuntingYardToken(st, augmented[1])
    ELSE LET first == ShuntingYard(
                          st, SubSeq(augmented, 1, Len(augmented) \div 2))
         IN  IF first.err # "" THEN first
             ELSE ShuntingYard(first,
                               SubSeq(augmented, Len(augmented) \div 2 + 1,
                                      Len(augmented)))

\* The final drain: "while stack: op = stack.pop() ...".
RECURSIVE DrainStack(_)
DrainStack(st) ==
    LET n == Len(st.stack)
    IN  IF n = 0 \/ st.err # "" THEN st
        ELSE IF st.stack[n] \in {"(", ")"}
             THEN [st EXCEPT !.err = "RegexValidationError"]
             ELSE DrainStack([st EXCEPT !.output = Append(@, st.stack[n]),
                                        !.stack = SubSeq(@, 1, n - 1)])

\* to_postfix: [err |-> the exception raised or "", out |-> the postfix].
to_postfix(r) ==
    IF r = <<>> THEN Raised
    ELSE IF validate_regex_raises(r) THEN Raised
    ELSE LET classes == expand_character_classes(r)
             quantifiers == expand_quantifiers(classes.out)
             processed == process_special_chars(quantifiers.out)
         IN  IF classes.err # "" THEN Raised
             ELSE IF quantifiers.err # "" THEN Raised
             ELSE IF \E i \in 1..Len(processed) :
                         ~ValidProcessedChar(processed[i])
             THEN Raised
             ELSE LET augmented == InsertConcat(Tokenize(processed))
                      st == DrainStack(
                                ShuntingYard([output |-> <<>>, stack |-> <<>>,
                                              err |-> ""], augmented))
                  IN  IF st.err # "" THEN Raised
                      ELSE IF st.output = <<>> THEN Raised
                      ELSE Returned(st.output)

(***************************************************************************)
(* thompson.py: postfix_to_nfa                                             *)
(***************************************************************************)
SName(n) == "s" \o ToString(n)

Fragment(start, accepts) == [start |-> start, accepts |-> accepts]

\* "for a in accepts: nfa.add_transition(a, EPSILON, dest)"
RECURSIVE LinkAccepts(_, _, _)
LinkAccepts(M, accepts, dest) ==
    IF accepts = <<>> THEN M
    ELSE LinkAccepts(add_transition(M, Head(accepts), EPSILON, dest),
                     Tail(accepts), dest)

\* The two states start, end = _new_state(counter), _new_state(counter).
WithNewStates(st) ==
    add_state(add_state(st.nfa, SName(st.counter), FALSE, FALSE),
              SName(st.counter + 1), FALSE, FALSE)

\* A positive closure that also links the new entry to the new exit, as the
\* star does.
PlusLinksWithBypass(M, start, end, frag) ==
    LET M1 == add_transition(M, start, EPSILON, frag.start)
        M2 == add_transition(M1, start, EPSILON, end)
        M3 == LinkAccepts(M2, frag.accepts, frag.start)
    IN  LinkAccepts(M3, frag.accepts, end)

\* The edges of the "+" branch: entry to entry(A), every exit of A back to
\* entry(A) and on to the new exit.
PlusLinks(M, start, end, frag) ==
    LET M1 == add_transition(M, start, EPSILON, frag.start)
        M2 == LinkAccepts(M1, frag.accepts, frag.start)
    IN  LinkAccepts(M2, frag.accepts, end)

\* A concatenation that keeps the exits of both operands.
ConcatFragmentBothExits(frag1, frag2) ==
    Fragment(frag1.start, frag1.accepts \o frag2.accepts)

\* The fragment the "." branch pushes.
ConcatFragment(frag1, frag2) == Fragment(frag1.start, frag2.accepts)

\* Body of "for ch in postfix" for one token; st is
\* [stack, counter, nfa, err].  list.pop() on an empty stack raises IndexError.
ThompsonToken(st, ch) ==
    LET n == Len(st.stack)
        start == SName(st.counter)
        end == SName(st.counter + 1)
        fresh == WithNewStates(st)
    IN  CASE ch = "*" ->
               IF n < 1 THEN [st EXCEPT !.err = "IndexError"]
               ELSE LET frag == st.stack[n]
                        M1 == add_transition(fresh, start, EPSILON, frag.start)
                        M2 == add_transition(M1, start, EPSILON, end)
                        M3 == LinkAccepts(M2, frag.accepts, frag.start)
                        M4 == LinkAccepts(M3, frag.accepts, end)
                    IN  [stack |-> Append(SubSeq(st.stack, 1, n - 1),
                                          Fragment(start, <<end>>)),
                         counter |-> st.counter + 2, nfa |-> M4, err |-> ""]
          [] ch = "+" ->
               IF n < 1 THEN [st EXCEPT !.err = "IndexError"]
               ELSE LET frag == st.stack[n]
                    IN  [stack |-> Append(SubSeq(st.stack, 1, n - 1),
                                          Fragment(start, <<end>>)),
                         counter |-> st.counter + 2,
                         nfa |-> PlusLinks(fresh, start, end, frag),
                         err |-> ""]
          [] ch = "." ->
               IF n < 2 THEN [st EXCEPT !.err = "IndexError"]
               ELSE LET frag2 == st.stack[n]
                        frag1 == st.stack[n - 1]
                    IN  [stack |-> Append(SubSeq(st.stack, 1, n - 2),
                                          ConcatFragment(frag1, frag2)),
                         counter |-> st.counter,
                         nfa |-> LinkAccepts(st.nfa, frag1.accepts, frag2.start),
                         err |-> ""]
          [] ch = "|" ->
               IF n < 2 THEN [st EXCEPT !.err = "IndexError"]
               ELSE LET frag2 == st.stack[n]
                        frag1 == st.stack[n - 1]
                        M1 == add_transition(fresh, start, EPSILON, frag1.start)
                        M2 == add_transition(M1, start, EPSILON, frag2.start)
                        M3 == LinkAccepts(M2, frag1.accepts, end)
                        M4 == LinkAccepts(M3, frag2.accepts, end)
                    IN  [stack |-> Append(SubSeq(st.stack, 1, n - 2),
                                          Fragment(start, <<end>>)),
                         counter |-> st.counter + 2, nfa |-> M4, err |-> ""]
          [] OTHER ->
               \* literal symbol (EPSILON included; "?" has no branch of its own)
               [stack |-> Append(st.stack, Fragment(start, <<end>>)),
                counter |-> st.counter + 2,
                nfa |-> add_transition(fresh, start, ch, end),
                err |-> ""]

\* "for ch in postfix", the tokens taken in order and the stream halved at
\* each step; a raise ends the loop.
RECURSIVE ThompsonLoop(_, _)
ThompsonLoop(st, rest) ==
    IF rest = <<>> \/ st.err # "" THEN st
    ELSE IF Len(rest) = 1 THEN ThompsonToken(st, rest[1])
    ELSE LET first == ThompsonLoop(st, SubSeq(rest, 1, Len(rest) \div 2))
         IN  IF first.err # "" THEN first
             ELSE ThompsonLoop(first,
                               SubSeq(rest, Len(rest) \div 2 + 1, Len(rest)))

RECURSIVE AddAccepts(_, _)
AddAccepts(M, accepts) ==
    IF accepts = <<>> THEN M
    ELSE AddAccepts([M EXCEPT !.accepts = @ \cup {Head(accepts)}], Tail(accepts))

\* postfix_to_nfa: [err |-> the exception raised or "", nfa |-> the result].
postfix_to_nfa(pf) ==
    LET st == ThompsonLoop([stack |-> <<>>, counter |-> 0, nfa |-> Automaton,
                            err |-> ""], pf)
    IN  IF st.err # "" THEN [err |-> st.err, nfa |-> Automaton]
        ELSE IF Len(st.stack) # 1 THEN [err |-> "ValueError", nfa |-> Automaton]
        ELSE LET frag == st.stack[1]
             IN  [err |-> "",
                  nfa |-> AddAccepts([st.nfa EXCEPT !.initial = frag.start],
                                     frag.accepts)]

(***************************************************************************)
(* Inputs.                                                                 *)
(***************************************************************************)
\* All strings over chars of length at most n.
Strings(chars, n) == UNION {[1..k -> chars] : k \in 0..n}

RECURSIVE SubsetsUpTo(_, _)
SubsetsUpTo(S, k) ==
    IF k = 0 THEN {{}}
    ELSE LET prev == SubsetsUpTo(S, k - 1)
         IN  prev \cup {T \cup {e} : T \in prev, e \in S}

\* The automaton add_state and add_transition build from these parts.
MakeAutomaton(S, E, acc, init) ==
    [states |-> S, alphabet |-> {t[2] : t \in E} \ {EPSILON}, initial |-> init,
     accepts |-> acc, transitions |-> E]

NfaStates == {"s0", "s1", "s2"}
NfaLabels == {"a", "b", EPSILON}

NfaInputs ==
    {MakeAutomaton(NfaStates, E, acc, init) :
        E \in SubsetsUpTo(NfaStates \X NfaLabels \X NfaStates, MaxEdges),
        acc \in SUBSET NfaStates, init \in {"s0"}}

\* Deterministic inputs over one symbol; one state bears the name m0.
DfaStates == {"m0", "s1", "s2", "s3"}

DfaEdges(f) == {<<s, "a", f[s]>> : s \in {x \in DfaStates : f[x] # None}}

DfaInputs ==
    {MakeAutomaton(DfaStates, DfaEdges(f), acc, init) :
        f \in [DfaStates -> DfaStates \cup {None}],
        acc \in SUBSET DfaStates, init \in {"m0", "s1"}}

\* A DFA over two symbols in which s0 and s3 accept the same strings: the
\* b-transition of s0 leads to the dead state s1, s3 has no b-transition.
DeadStateDfa ==
    MakeAutomaton({"s0", "s1", "s2", "s3"},
                  {<<"s0", "a", "s2">>, <<"s0", "b", "s1">>, <<"s2", "a", "s3">>,
                   <<"s2", "b", "s0">>, <<"s3", "a", "s2">>},
                  {"s2"}, "s0")

\* A partial DFA over two symbols whose minimization result is merged further
\* by a second minimization.
SecondPassDfa ==
    MakeAutomaton({"s0", "s1", "s2", "s3", "s4"},
                  {<<"s0", "a", "s4">>, <<"s0", "b", "s0">>, <<"s1", "a", "s3">>,
                   <<"s1", "b", "s2">>, <<"s2", "a", "s4">>, <<"s3", "b", "s2">>,
                   <<"s4", "b", "s1">>},
                  {"s4"}, "s0")

\* A DFA in which a block that waits in the worklist is split: the preimage
\* of the accepting block under a puts {s0, s1} in W, and its preimage under b
\* splits {s0, s1}.
WorklistSplitDfa ==
    MakeAutomaton({"s0", "s1", "s2", "s3", "s4"},
                  {<<"s0", "a", "s4">>, <<"s0", "b", "s4">>, <<"s1", "a", "s4">>,
                   <<"s4", "a", "s1">>, <<"s4", "b", "s2">>, <<"s2", "a", "s3">>},
                  {"s4"}, "s0")

ScenarioAutomata == {DeadStateDfa, SecondPassDfa, WorklistSplitDfa}

AutomatonInputs == NfaInputs \cup DfaInputs \cup ScenarioAutomata

\* Regex texts: every text over RegexChars up to MaxRegexLen, and the
\* end-to-end scenarios of tests.py.
RegexChars == {"a", "b", "(", ")", "|", "*", "+", "?", "e", "ε"}

RegexABB == <<"(", "a", "|", "b", ")", "*", "a", "b", "b">>

ScenarioRegexes ==
    {RegexABB,
     <<"a", "?", "b">>, <<"a", "?">>, <<"(", "a", "|", "ε", ")">>,
     <<"a", "+">>, <<"a", "a", "*">>,
     <<"e", "|", "a", "a">>}

RegexInputs == Strings(RegexChars, MaxRegexLen) \cup ScenarioRegexes

\* Postfix streams handed to postfix_to_nfa directly, malformed ones included.
PostfixTokens == {"a", "b", "ε", ".", "|", "*", "+", "?"}

PostfixInputs == Strings(PostfixTokens, MaxPostfixLen)

(***************************************************************************)
(* The pipeline as a state machine.                                        *)
(***************************************************************************)
InitAutomaton ==
    /\ entry = "automaton"
    /\ stage = "nfa"
    /\ regex = <<>>
    /\ postfix = <<>>
    /\ err = ""
    /\ nfa \in AutomatonInputs
    /\ dfa = Automaton
    /\ sameObj = FALSE
    /\ dfaIn = Automaton
    /\ P = <<>>
    /\ W = <<>>
    /\ min_dfa = Automaton
    /\ min_dfa2 = Automaton
    /\ aut = Automaton
    /\ call = ""
    /\ debug = TRUE
    /\ exported = <<>>
    /\ epsilon_cache = {}
    /\ returned = [states |-> {}, closure |-> {}]

\* dfa = nfa.determinize()
Determinize ==
    /\ stage = "nfa"
    /\ IF determinize_raises(nfa)
       THEN /\ err' = "ValueError"
            /\ stage' = "failed_determinize"
            /\ UNCHANGED <<dfa, sameObj>>
       ELSE /\ dfa' = determinize(nfa)
            /\ sameObj' = is_deterministic(nfa)
            /\ stage' = "dfa"
            /\ err' = ""
    /\ UNCHANGED <<aut, call, debug, exported, epsilon_cache, returned, min_dfa2, entry, regex, postfix, nfa, dfaIn, P, W, min_dfa>>

\* minimize_hopcroft(dfa), up to the first test of "while W".
MinimizeCall ==
    /\ stage = "dfa"
    /\ dfaIn' = dfa
    /\ IF minimize_hopcroft_raises(dfa)
       THEN /\ err' = "ValueError"
            /\ stage' = "failed_minimize"
            /\ UNCHANGED <<nfa, dfa, P, W>>
       ELSE /\ dfa' = remove_unreachable(dfa)
            /\ nfa' = IF sameObj THEN dfa' ELSE nfa
            /\ P' = InitialP(dfa')
            /\ W' = InitialW(dfa')
            /\ stage' = "refine"
            /\ err' = ""
    /\ UNCHANGED <<aut, call, debug, exported, epsilon_cache, returned, min_dfa2, entry, regex, postfix, sameObj, min_dfa>>

\* One iteration of the refinement loop.
MinimizeLoop ==
    /\ stage = "refine"
    /\ W # <<>>
    /\ LET st == RefineStep(dfa, P, W)
       IN  P' = st.P /\ W' = st.W
    /\ UNCHANGED <<aut, call, debug, exported, epsilon_cache, returned, min_dfa2, entry, stage, regex, postfix, err, nfa, dfa, sameObj, dfaIn,
                   min_dfa>>

\* The loop has ended: build and return the minimal DFA.
MinimizeReturn ==
    /\ stage = "refine"
    /\ W = <<>>
    /\ min_dfa' = BuildMinDfa(dfa, P)
    /\ stage' = "min"
    /\ UNCHANGED <<aut, call, debug, exported, epsilon_cache, returned, min_dfa2, entry, regex, postfix, err, nfa, dfa, sameObj, dfaIn, P, W>>

\* minimize_hopcroft(min_dfa): the minimizer applied to its own result, which
\* it mutates through remove_unreachable.
MinimizeAgain ==
    /\ stage = "min"
    /\ IF minimize_hopcroft_raises(min_dfa)
       THEN /\ err' = "ValueError"
            /\ stage' = "failed_minimize_again"
            /\ UNCHANGED <<min_dfa, min_dfa2>>
       ELSE /\ min_dfa' = remove_unreachable(min_dfa)
            /\ min_dfa2' = minimize_hopcroft(min_dfa)
            /\ stage' = "min2"
            /\ err' = ""
    /\ UNCHANGED <<aut, call, debug, exported, epsilon_cache, returned, entry, regex, postfix, nfa, dfa, sameObj,
                   dfaIn, P, W>>

InitFront ==
    /\ \/ /\ entry = "regex"
          /\ stage = "regex"
          /\ regex \in RegexInputs
          /\ postfix = <<>>
       \/ /\ entry = "postfix"
          /\ stage = "postfix"
          /\ regex = <<>>
          /\ postfix \in PostfixInputs
    /\ err = ""
    /\ nfa = Automaton
    /\ dfa = Automaton
    /\ sameObj = FALSE
    /\ dfaIn = Automaton
    /\ P = <<>>
    /\ W = <<>>
    /\ min_dfa = Automaton
    /\ min_dfa2 = Automaton
    /\ aut = Automaton
    /\ call = ""
    /\ debug = TRUE
    /\ exported = <<>>
    /\ epsilon_cache = {}
    /\ returned = [states |-> {}, closure |-> {}]

\* postfix = to_postfix(regex)
ToPostfix ==
    /\ stage = "regex"
    /\ LET res == to_postfix(regex)
       IN  /\ err' = res.err
           /\ postfix' = res.out
           /\ stage' = IF res.err = "" THEN "postfix" ELSE "failed_to_postfix"
    /\ UNCHANGED <<aut, call, debug, exported, epsilon_cache, returned, min_dfa2, entry, regex, nfa, dfa, sameObj, dfaIn, P, W, min_dfa>>

\* nfa = postfix_to_nfa(postfix)
PostfixToNfa ==
    /\ stage = "postfix"
    /\ LET res == postfix_to_nfa(postfix)
       IN  /\ err' = res.err
           /\ nfa' = res.nfa
           /\ stage' = IF res.err = "" THEN "nfa" ELSE "failed_postfix_to_nfa"
    /\ UNCHANGED <<aut, call, debug, exported, epsilon_cache, returned, min_dfa2, entry, regex, postfix, dfa, sameObj, dfaIn, P, W, min_dfa>>

\* exported = the records of automaton_to_dict(nfa), automaton_to_dict(dfa)
\* and automaton_to_dict(min_dfa)
AutomatonToDict ==
    /\ stage = "min"
    /\ exported' \in
           {<<n, d, m>> :
               n \in automaton_to_dict(nfa, InsertionLabels(nfa)),
               d \in automaton_to_dict(dfa, InsertionLabels(dfa)),
               m \in automaton_to_dict(min_dfa, MinDfaLabels(dfa, P))}
    /\ stage' = "exported"
    /\ UNCHANGED <<entry, regex, postfix, err, nfa, dfa, sameObj, dfaIn, P, W,
                   min_dfa, min_dfa2, aut, call, debug, epsilon_cache,
                   returned>>

NextAutomaton ==
    \/ Determinize
    \/ MinimizeCall
    \/ MinimizeLoop
    \/ MinimizeReturn
    \/ MinimizeAgain

SpecAutomaton == InitAutomaton /\ [][NextAutomaton]_vars

(***************************************************************************)
(* The same calls run to their end on deterministic automata of three      *)
(* states and on the scenario automata.                                    *)
(***************************************************************************)
TerminationStates == {"m0", "s1", "s2"}

TerminationInputs ==
    {MakeAutomaton(TerminationStates,
                   {<<s, "a", f[s]>> :
                       s \in {x \in TerminationStates : f[x] # None}},
                   acc, "m0") :
        f \in [TerminationStates -> TerminationStates \cup {None}],
        acc \in SUBSET TerminationStates}
        \cup ScenarioAutomata

InitTermination ==
    /\ entry = "automaton"
    /\ stage = "nfa"
    /\ regex = <<>>
    /\ postfix = <<>>
    /\ err = ""
    /\ nfa \in TerminationInputs
    /\ dfa = Automaton
    /\ sameObj = FALSE
    /\ dfaIn = Automaton
    /\ P = <<>>
    /\ W = <<>>
    /\ min_dfa = Automaton
    /\ min_dfa2 = Automaton
    /\ aut = Automaton
    /\ call = ""
    /\ debug = TRUE
    /\ exported = <<>>
    /\ epsilon_cache = {}
    /\ returned = [states |-> {}, closure |-> {}]

\* minimize_hopcroft runs in one thread: when its loop can take another
\* iteration it takes it, and when the loop has ended the result is built.
SpecTermination ==
    /\ InitTermination
    /\ [][NextAutomaton]_vars
    /\ WF_vars(MinimizeLoop)
    /\ WF_vars(MinimizeReturn)

NextFront ==
    \/ ToPostfix
    \/ PostfixToNfa
    \/ Determinize
    \/ MinimizeCall
    \/ MinimizeLoop
    \/ MinimizeReturn
    \/ MinimizeAgain
    \/ AutomatonToDict

SpecFront == InitFront /\ [][NextFront]_vars

(***************************************************************************)
(* Sequences of direct calls on one automaton.  A call that returns a new  *)
(* automaton hands it to the calls that follow.                            *)
(***************************************************************************)
BuildNames == {"s0", "s1"}
BuildSymbols == {"a", EPSILON}
BuildPostfixInputs == Strings({"a", "ε", ".", "|", "*"}, MaxBuildPostfixLen)

InitBuild ==
    /\ entry = "build"
    /\ stage = "build"
    /\ regex = <<>>
    /\ postfix = <<>>
    /\ err = ""
    /\ nfa = Automaton
    /\ dfa = Automaton
    /\ sameObj = FALSE
    /\ dfaIn = Automaton
    /\ P = <<>>
    /\ W = <<>>
    /\ min_dfa = Automaton
    /\ min_dfa2 = Automaton
    /\ aut = Automaton
    /\ call = ""
    /\ debug \in BOOLEAN
    /\ exported = <<>>
    /\ epsilon_cache = {}
    /\ returned = [states |-> {}, closure |-> {}]

BuildFrame ==
    UNCHANGED <<entry, stage, regex, postfix, nfa, dfa, sameObj, dfaIn, P, W,
                min_dfa, min_dfa2, debug, exported>>

\* aut.add_state(name, accept=accept, initial=initial)
AddState ==
    /\ stage = "build"
    /\ \E name \in BuildNames, accept \in BOOLEAN, initial \in BOOLEAN :
           /\ name \in aut.states \/ Cardinality(aut.states) < MaxBuildStates
           /\ aut' = add_state(aut, name, accept, initial)
           /\ epsilon_cache' = CacheAfterAddState(aut, epsilon_cache, name)
    /\ call' = "add_state"
    /\ err' = ""
    /\ UNCHANGED returned
    /\ BuildFrame

\* aut.add_transition(src, symbol, dest)
AddTransition ==
    /\ stage = "build"
    /\ Cardinality(aut.transitions) < MaxBuildEdges
    /\ \E src \in BuildNames, symbol \in BuildSymbols, dest \in BuildNames :
           /\ IF debug
              THEN /\ aut' = add_transition(aut, src, symbol, dest)
                   /\ err' = IF add_transition_raises(aut, src, dest)
                             THEN "ValueError" ELSE ""
              ELSE /\ aut' = add_transition_unchecked(aut, src, symbol, dest)
                   /\ err' = IF add_transition_unchecked_raises(aut, src)
                             THEN "KeyError" ELSE ""
           /\ epsilon_cache' =
                  IF err' # "" THEN epsilon_cache
                  ELSE CacheAfterAddTransition(epsilon_cache, symbol)
    /\ call' = "add_transition"
    /\ UNCHANGED returned
    /\ BuildFrame

\* aut.remove_unreachable()
RemoveUnreachable ==
    /\ stage = "build"
    /\ aut' = remove_unreachable(aut)
    /\ call' = "remove_unreachable"
    /\ err' = ""
    /\ UNCHANGED <<epsilon_cache, returned>>
    /\ BuildFrame

\* aut = aut.clone()
Clone ==
    /\ stage = "build"
    /\ aut' = clone(aut)
    /\ epsilon_cache' = {}
    /\ call' = "clone"
    /\ err' = ""
    /\ UNCHANGED returned
    /\ BuildFrame

\* aut = aut.relabel_sequential()
RelabelSequential ==
    /\ stage = "build"
    /\ IF relabel_sequential_raises(aut)
       THEN aut' = aut /\ err' = "KeyError" /\ UNCHANGED epsilon_cache
       ELSE aut' = relabel_sequential(aut) /\ err' = "" /\ epsilon_cache' = {}
    /\ call' = "relabel_sequential"
    /\ UNCHANGED returned
    /\ BuildFrame

\* aut = aut.determinize()
DeterminizeBuilt ==
    /\ stage = "build"
    /\ IF determinize_raises(aut)
       THEN aut' = aut /\ err' = "ValueError"
       ELSE aut' = determinize(aut) /\ err' = ""
    /\ epsilon_cache' = IF aut' = aut THEN epsilon_cache ELSE {}
    /\ call' = "determinize"
    /\ UNCHANGED returned
    /\ BuildFrame

\* aut = minimize_hopcroft(aut).  rep_map[d] raises KeyError, after
\* remove_unreachable has run, for a destination that is not a state.
MinimizeBuilt ==
    /\ stage = "build"
    /\ IF minimize_hopcroft_raises(aut)
       THEN aut' = aut /\ err' = "ValueError"
       ELSE IF relabel_sequential_raises(remove_unreachable(aut))
       THEN aut' = remove_unreachable(aut) /\ err' = "KeyError"
       ELSE aut' = minimize_hopcroft(aut) /\ err' = ""
    /\ epsilon_cache' = IF err' # "" THEN epsilon_cache ELSE {}
    /\ call' = "minimize_hopcroft"
    /\ UNCHANGED returned
    /\ BuildFrame

\* aut.simulate_dfa_path(w): only the exception is kept.
SimulateDfaPathBuilt ==
    /\ stage = "build"
    /\ err' = IF simulate_dfa_raises(aut) THEN "ValueError" ELSE ""
    /\ call' = "simulate_dfa_path"
    /\ aut' = aut
    /\ UNCHANGED <<epsilon_cache, returned>>
    /\ BuildFrame

\* aut = postfix_to_nfa(pf), as the first call of the sequence.
PostfixToNfaBuilt ==
    /\ stage = "build"
    /\ call = ""
    /\ \E pf \in BuildPostfixInputs :
           LET res == postfix_to_nfa(pf)
           IN  /\ err' = res.err
               /\ aut' = IF res.err = "" THEN res.nfa ELSE aut
    /\ epsilon_cache' = IF err' # "" THEN epsilon_cache ELSE {}
    /\ call' = "postfix_to_nfa"
    /\ UNCHANGED returned
    /\ BuildFrame

NextBuild ==
    \/ AddState
    \/ AddTransition
    \/ RemoveUnreachable
    \/ Clone
    \/ RelabelSequential
    \/ DeterminizeBuilt
    \/ MinimizeBuilt
    \/ SimulateDfaPathBuilt
    \/ PostfixToNfaBuilt

SpecBuild == InitBuild /\ [][NextBuild]_vars

(***************************************************************************)
(* Interleavings of add_state, add_transition and epsilon_closure on one   *)
(* automaton, the caller changing the sets it was handed.                  *)
(***************************************************************************)
\* returned = aut.epsilon_closure(states)
EpsilonClosure ==
    /\ stage = "build"
    /\ \E states \in SUBSET BuildNames :
           /\ returned' = [states |-> states,
                           closure |-> MemoClosure(aut, epsilon_cache, states)]
           /\ epsilon_cache' = MemoAfter(aut, epsilon_cache, states)
    /\ call' = "epsilon_closure"
    /\ err' = ""
    /\ UNCHANGED aut
    /\ BuildFrame

\* The caller adds a state to the set it was handed or discards one from
\* it.  The set is a copy: the memo holds another object.
ModifyReturned ==
    /\ stage = "build"
    /\ call = "epsilon_closure"
    /\ \E name \in BuildNames :
           \/ returned' = [returned EXCEPT !.closure = @ \cup {name}]
           \/ returned' = [returned EXCEPT !.closure = @ \ {name}]
    /\ call' = "modify_returned"
    /\ err' = ""
    /\ UNCHANGED <<aut, epsilon_cache>>
    /\ BuildFrame

NextClosure ==
    \/ AddState
    \/ AddTransition
    \/ EpsilonClosure
    \/ ModifyReturned

SpecClosure == InitBuild /\ [][NextClosure]_vars

(***************************************************************************)
(* to_postfix and postfix_to_nfa on texts that also hold brackets, braces,  *)
(* the escape character or the wildcard, and on texts at the length limit. *)
(***************************************************************************)
ParserChars == {"a", "(", ")", "[", "]", "{", "}", "\\", "|", "*", "?"}

\* One text longer than the limit and one of exactly the limit.
LongRegexes ==
    {[i \in 1..(MaxRegexLength + 1) |-> "a"],
     [i \in 1..MaxRegexLength |-> IF i = 1 THEN ")" ELSE "a"]}

\* Escapes of characters that ParserChars lacks.
EscapeRegexes ==
    {<<"\\", ".">>, <<"a", "\\", ".">>, <<"\\", "n">>, <<"a", "\\", "n">>,
     <<"\\", "t">>, <<"\\", "r">>, <<"\\", "+">>, <<"\\", "^">>,
     <<"\\", "$">>}

\* The wildcard alone.
WildcardRegexes == {<<".">>}

ParserInputs ==
    Strings(ParserChars, MaxParserLen) \cup LongRegexes \cup EscapeRegexes
        \cup WildcardRegexes

InitParser ==
    /\ entry = "parser"
    /\ stage = "regex"
    /\ regex \in ParserInputs
    /\ postfix = <<>>
    /\ err = ""
    /\ nfa = Automaton
    /\ dfa = Automaton
    /\ sameObj = FALSE
    /\ dfaIn = Automaton
    /\ P = <<>>
    /\ W = <<>>
    /\ min_dfa = Automaton
    /\ min_dfa2 = Automaton
    /\ aut = Automaton
    /\ call = ""
    /\ debug = TRUE
    /\ exported = <<>>
    /\ epsilon_cache = {}
    /\ returned = [states |-> {}, closure |-> {}]

NextParser ==
    \/ ToPostfix
    \/ PostfixToNfa

SpecParser == InitParser /\ [][NextParser]_vars

(***************************************************************************)
(* Claims.                                                                 *)
(***************************************************************************)
\* C1: for every deterministic automaton D with an initial state and every
\* string x over D's alphabet, minimize_hopcroft(D) accepts x iff D accepts x.
C1_MinimizePreservesLanguage ==
    stage = "min" =>
        \A x \in Strings(dfaIn.alphabet, MaxStrLen) :
            simulate_dfa(min_dfa, x) = simulate_dfa(dfaIn, x)

\* C2: for every automaton N with an initial state and every input string x,
\* N.determinize().simulate_dfa(x) equals N.simulate_nfa(x).
C2_DeterminizeAgreesWithNfa ==
    (stage = "dfa" /\ ~simulate_dfa_raises(dfa)) =>
        \A x \in Strings(NfaLabels, MaxStrLen) :
            simulate_dfa(dfa, x) = simulate_nfa(nfa, x)

\* C9: for every automaton N with an initial state, N.determinize() has an
\* initial state, no epsilon-transition and at most one destination for every
\* (state, symbol) pair, i.e. is_dfa() is true on it.
C9_DeterminizeIsDfa ==
    stage = "dfa" =>
        /\ dfa.initial # None
        /\ dfa.initial \in dfa.states
        /\ \A t \in dfa.transitions : t[2] # EPSILON
        /\ \A t1, t2 \in dfa.transitions :
               (t1[1] = t2[1] /\ t1[2] = t2[2]) => t1[3] = t2[3]
        /\ is_dfa(dfa)

\* C9 witness: a non-deterministic input with an epsilon-transition and two
\* destinations for one (state, symbol) pair has been determinized.
C9_Witness ==
    /\ stage = "dfa"
    /\ \E t \in nfa.transitions : t[2] = EPSILON
    /\ \E t1, t2 \in nfa.transitions :
           t1[1] = t2[1] /\ t1[2] = t2[2] /\ t1[2] # EPSILON /\ t1[3] # t2[3]
    /\ Cardinality(dfa.states) >= 2

\* C10: for every deterministic automaton D with an initial state,
\* minimize_hopcroft(D) is a DFA: its initial state is the block holding D's
\* initial state, it has no epsilon-transition, and every (block, symbol)
\* pair has at most one destination block.
C10_MinimizeIsDfa ==
    stage = "min" =>
        /\ min_dfa.initial = RepMap(P, BlockNames(P, 1, 0), dfaIn.initial)
        /\ \A t \in min_dfa.transitions : t[2] # EPSILON
        /\ \A t1, t2 \in min_dfa.transitions :
               (t1[1] = t2[1] /\ t1[2] = t2[2]) => t1[3] = t2[3]
        /\ is_dfa(min_dfa)

\* The stack evaluation of a postfix stream: an operand pushes one item, a
\* unary operator needs one item, a binary operator needs two and leaves one.
\* The result is the final depth, or -1 once an operator has underflowed.
RECURSIVE PostfixDepth(_, _)
PostfixDepth(pf, depth) ==
    IF depth < 0 \/ pf = <<>> THEN depth
    ELSE LET ch == Head(pf)
         IN  IF ch \in OP_UNARY
             THEN PostfixDepth(Tail(pf), IF depth < 1 THEN -1 ELSE depth)
             ELSE IF ch \in OP_BINARY
             THEN PostfixDepth(Tail(pf), IF depth < 2 THEN -1 ELSE depth - 1)
             ELSE PostfixDepth(Tail(pf), depth + 1)

WellFormedPostfix(pf) == PostfixDepth(pf, 0) = 1

Front(s) == SubSeq(s, 1, Len(s) - 1)

Last(s) == s[Len(s)]

\* x is a concatenation of one or more strings the automaton A accepts.
RECURSIVE InPlus(_, _)
InPlus(A, x) ==
    \/ simulate_nfa(A, x)
    \/ \E k \in 1..(Len(x) - 1) :
           /\ simulate_nfa(A, SubSeq(x, 1, k))
           /\ InPlus(A, SubSeq(x, k + 1, Len(x)))

ThompsonDone == stage \in {"nfa", "dfa", "refine", "min"}

ThompsonReturned == ThompsonDone \/ stage = "failed_postfix_to_nfa"

\* C3: the pipeline on (a|b)*abb yields a minimal DFA with exactly 4 states on
\* which simulate_dfa_path accepts abb, aabb, babb, ababb and bbabb and
\* rejects the empty string, ab, ba and abba.
C3_PipelineABB ==
    regex = RegexABB =>
        /\ stage \notin {"failed_to_postfix", "failed_postfix_to_nfa",
                         "failed_determinize", "failed_minimize"}
        /\ stage = "min" =>
               /\ Cardinality(min_dfa.states) = 4
               /\ \A x \in {<<"a", "b", "b">>, <<"a", "a", "b", "b">>,
                            <<"b", "a", "b", "b">>,
                            <<"a", "b", "a", "b", "b">>,
                            <<"b", "b", "a", "b", "b">>} :
                      simulate_dfa_path(min_dfa, x)[2]
               /\ \A x \in {<<>>, <<"a", "b">>, <<"b", "a">>,
                            <<"a", "b", "b", "a">>} :
                      ~simulate_dfa_path(min_dfa, x)[2]

\* C3 witness: the pipeline has run to the end on (a|b)*abb, and Hopcroft had
\* states to merge.
C3_Witness ==
    /\ regex = RegexABB
    /\ stage = "min"
    /\ Cardinality(dfaIn.states) > Cardinality(min_dfa.states)

\* C4: for the postfix token ?, postfix_to_nfa pops one fragment A and pushes
\* a fragment accepting the language of A plus the empty string; the pipeline
\* on a?b succeeds and accepts exactly b and ab (rejecting the empty string,
\* aab and aa), and a? accepts the same strings as (a|ε).
C4_OptionalOperator ==
    /\ (/\ ThompsonReturned
        /\ postfix # <<>>
        /\ Last(postfix) = "?"
        /\ postfix_to_nfa(Front(postfix)).err = "") =>
           /\ err = ""
           /\ \A x \in Strings({"a", "b"}, MaxStrLen) :
                  simulate_nfa(nfa, x) =
                      (x = <<>> \/ simulate_nfa(postfix_to_nfa(Front(postfix)).nfa, x))
    /\ regex = <<"a", "?", "b">> =>
           /\ stage \notin {"failed_to_postfix", "failed_postfix_to_nfa",
                            "failed_determinize", "failed_minimize"}
           /\ stage = "min" =>
                  \A x \in Strings({"a", "b"}, MaxStrLen) :
                      simulate_dfa(min_dfa, x) = (x \in {<<"b">>, <<"a", "b">>})
    /\ (regex = <<"a", "?">> /\ ThompsonReturned) =>
           /\ err = ""
           /\ \A x \in Strings({"a", "b"}, MaxStrLen) :
                  simulate_nfa(nfa, x) =
                      simulate_nfa(
                          postfix_to_nfa(
                              to_postfix(<<"(", "a", "|", "ε", ")">>).out).nfa,
                          x)

\* C5: for the postfix token +, the only edge leaving the new entry state is
\* the ε-edge to entry(A), with no direct ε-edge from the new entry to the new
\* exit, so that A+ accepts exactly the concatenations of one or more strings
\* of A; the pipeline on a+ accepts a, aa, aaa and rejects the empty string
\* and b.
C5_PlusOneOrMore ==
    /\ (ThompsonDone /\ postfix # <<>> /\ Last(postfix) = "+") =>
           LET A == postfix_to_nfa(Front(postfix)).nfa
               start == SName(Cardinality(A.states))
               end == SName(Cardinality(A.states) + 1)
           IN  /\ nfa.initial = start
               /\ nfa.accepts = {end}
               /\ {t \in nfa.transitions : t[1] = start} =
                      {<<start, EPSILON, A.initial>>}
               /\ \A x \in Strings(nfa.alphabet, MaxStrLen) :
                      simulate_nfa(nfa, x) = InPlus(A, x)
    /\ regex = <<"a", "+">> =>
           /\ stage \notin {"failed_to_postfix", "failed_postfix_to_nfa",
                            "failed_determinize", "failed_minimize"}
           /\ stage = "min" =>
                  /\ \A x \in {<<"a">>, <<"a", "a">>, <<"a", "a", "a">>} :
                         /\ simulate_nfa(nfa, x)
                         /\ simulate_dfa(dfa, x)
                         /\ simulate_dfa(min_dfa, x)
                  /\ \A x \in {<<>>, <<"b">>} :
                         /\ ~simulate_nfa(nfa, x)
                         /\ ~simulate_dfa(dfa, x)
                         /\ ~simulate_dfa(min_dfa, x)

\* C5 witness: the pipeline has run to the end on a+, whose postfix stream
\* ends with the token +.
C5_Witness ==
    /\ regex = <<"a", "+">>
    /\ stage = "min"
    /\ postfix = <<"a", "+">>
    /\ simulate_dfa(min_dfa, <<"a", "a", "a">>)

\* C6: for every regex on which to_postfix returns without raising
\* RegexValidationError, the returned postfix stream is well formed: evaluated
\* left to right with a stack it never underflows and ends with exactly one
\* item.
C6_PostfixWellFormed ==
    (entry = "regex" /\ stage \notin {"regex", "failed_to_postfix"}) =>
        WellFormedPostfix(postfix)

\* C7: postfix_to_nfa fails with ValueError for every postfix stream in which
\* an operator *, +, ?, . or | finds fewer operands on the stack than it
\* needs, and for every stream that leaves a number of fragments other than
\* one on the stack, the empty stream included.
C7_MalformedRaisesValueError ==
    (ThompsonReturned /\ ~WellFormedPostfix(postfix)) =>
        (stage = "failed_postfix_to_nfa" /\ err = "ValueError")

\* C8: for every postfix stream on which postfix_to_nfa succeeds, the returned
\* NFA has an initial state, exactly one accepting state, and no transition on
\* a non-ε symbol whose destination is the initial state.
C8_SingleEntrySingleExit ==
    stage = "nfa" =>
        /\ nfa.initial # None
        /\ nfa.initial \in nfa.states
        /\ Cardinality(nfa.accepts) = 1
        /\ nfa.accepts \subseteq nfa.states
        /\ \A t \in nfa.transitions :
               t[3] = nfa.initial => t[2] = EPSILON

\* C8 witness: postfix_to_nfa has succeeded on a stream with a concatenation
\* and a closure, whose NFA has an edge back into the entry of the operand.
C8_Witness ==
    /\ stage = "nfa"
    /\ \E i \in 1..Len(postfix) : postfix[i] = "."
    /\ \E i \in 1..Len(postfix) : postfix[i] \in {"*", "+"}
    /\ Cardinality(nfa.states) >= 6

\* C11: for every deterministic automaton D with an initial state, the number
\* of states of minimize_hopcroft(D) is at most the number of states D had
\* when it was passed in.
C11_MinimizeNoMoreStates ==
    stage = "min" =>
        Cardinality(min_dfa.states) <= Cardinality(dfaIn.states)

\* C12: for every deterministic automaton D with an initial state,
\* minimize_hopcroft(D) is minimal: every state of the result is reachable
\* from its initial state, and no two distinct states of the result accept the
\* same set of strings (an undefined transition counting as rejection).
C12_MinimizeIsMinimal ==
    stage = "min" =>
        /\ Reach(min_dfa, {min_dfa.initial}) = min_dfa.states
        /\ \A s, t \in min_dfa.states :
               s # t =>
                   \E x \in Strings(min_dfa.alphabet, MaxStrLen) :
                       DfaRun(min_dfa, s, x) # DfaRun(min_dfa, t, x)

\* f is a bijection of states from A onto B that preserves the initial state,
\* the accepting set and every transition.
IsIsomorphism(f, A, B) ==
    /\ {f[s] : s \in A.states} = B.states
    /\ \A s, t \in A.states : f[s] = f[t] => s = t
    /\ (A.initial = None /\ B.initial = None)
           \/ (A.initial \in A.states /\ f[A.initial] = B.initial)
    /\ {f[s] : s \in A.accepts} = B.accepts
    /\ {<<f[t[1]], t[2], f[t[3]]>> : t \in A.transitions} = B.transitions

Isomorphic(A, B) ==
    /\ Cardinality(A.states) = Cardinality(B.states)
    /\ A.accepts \subseteq A.states
    /\ \A t \in A.transitions : t[1] \in A.states /\ t[3] \in A.states
    /\ \E f \in [A.states -> B.states] : IsIsomorphism(f, A, B)

\* C13: minimize_hopcroft is idempotent up to state renaming: for every
\* deterministic automaton D with an initial state,
\* minimize_hopcroft(minimize_hopcroft(D)) and minimize_hopcroft(D) are related
\* by a bijection of states that preserves the initial state, the accepting
\* set and every transition.  BuildMinDfa(dfa, P) is minimize_hopcroft(D) as
\* the first call returned it.
C13_MinimizeIdempotent ==
    stage \in {"min2", "failed_minimize_again"} =>
        /\ stage = "min2"
        /\ Isomorphic(min_dfa2, BuildMinDfa(dfa, P))

\* The input strings of simulate_dfa_path: over the alphabet of the automaton
\* and one symbol outside it.
PathInputs(A) == Strings(A.alphabet \cup {"z"}, MaxPathLen)

\* What the contract of simulate_dfa_path says of the result r on input w.
PathContract(A, w, r) ==
    LET path == r[1]
        accepted == r[2]
        k == Len(path) - 1
    IN  /\ Len(path) >= 1
        /\ path[1] = A.initial
        /\ k <= Len(w)
        /\ \A i \in 1..k : get_transitions(A, path[i], w[i]) = {path[i + 1]}
        /\ k < Len(w) =>
               /\ get_transitions(A, path[k + 1], w[k + 1]) = {}
               /\ accepted = FALSE
        /\ k = Len(w) => accepted = (path[k + 1] \in A.accepts)

\* C14: for every DFA with an initial state and every input string w,
\* simulate_dfa_path returns (path, accepted) where path[0] is the initial
\* state and each next entry is the destination of the transition from the
\* previous entry on the next symbol of w; at the first symbol with no defined
\* transition (a symbol outside the alphabet included) it returns the path
\* built so far with accepted false and raises no error; otherwise path has
\* len(w)+1 entries and accepted is true iff the last entry is accepting.
C14_SimulateDfaPath ==
    (stage = "dfa" /\ ~simulate_dfa_raises(dfa)) =>
        \A w \in PathInputs(dfa) :
            PathContract(dfa, w, simulate_dfa_path(dfa, w))

\* C14 witness: a DFA on which one input is consumed whole and accepted, and
\* another stops after at least one step, in an accepting state, at a symbol
\* outside the alphabet.
C14_Witness ==
    /\ stage = "dfa"
    /\ ~simulate_dfa_raises(dfa)
    /\ \E w \in PathInputs(dfa) :
           LET r == simulate_dfa_path(dfa, w)
           IN  Len(w) >= 2 /\ Len(r[1]) = Len(w) + 1 /\ r[2]
    /\ \E w \in PathInputs(dfa) :
           LET r == simulate_dfa_path(dfa, w)
           IN  /\ Len(r[1]) >= 2
               /\ Len(r[1]) <= Len(w)
               /\ w[Len(r[1])] = "z"
               /\ r[1][Len(r[1])] \in dfa.accepts

\* The representation invariant of an automaton.
WellFormedAutomaton(A) ==
    /\ A.initial # None => A.initial \in A.states
    /\ A.accepts \subseteq A.states
    /\ \A t \in A.transitions : t[1] \in A.states /\ t[3] \in A.states
    /\ EPSILON \notin A.alphabet
    /\ \A t \in A.transitions : t[2] # EPSILON => t[2] \in A.alphabet

\* C17: after any sequence of add_state, add_transition, remove_unreachable,
\* clone, relabel_sequential, determinize, postfix_to_nfa and minimize_hopcroft
\* calls, every automaton involved satisfies: the initial state (when set),
\* every accepting state and every source and destination of a transition
\* belong to states; ε is not in alphabet; the label of every non-ε transition
\* is in alphabet.  An add_transition naming an unknown state fails and
\* changes nothing.
C17_AutomatonInvariant ==
    /\ [](WellFormedAutomaton(aut))
    /\ [][call' = "add_transition" =>
              /\ err' # "" => aut' = aut
              /\ err' = "" =>
                     \A t \in aut'.transitions \ aut.transitions :
                         t[1] \in aut.states /\ t[3] \in aut.states]_vars

\* The exception class minimize_hopcroft and simulate_dfa_path raise for an
\* automaton without an initial state, taken from the call on the empty
\* automaton; the class postfix_to_nfa raises for the empty stream; the class
\* to_postfix raises for the empty regex.
NoInitialKind == IF minimize_hopcroft_raises(Automaton) THEN "ValueError" ELSE ""
MalformedPostfixKind == postfix_to_nfa(<<>>).err
InvalidRegexKind == to_postfix(<<>>).err

\* C15: the errors of the stages are distinct kinds, distinguishable without
\* reading the message: simulate_dfa_path and minimize_hopcroft on a
\* non-deterministic automaton fail with one kind, on an automaton without an
\* initial state with a different kind, and postfix_to_nfa on a malformed
\* stream with a third kind, different from the parser's.
C15_DistinctErrorKinds ==
    /\ (/\ call \in {"simulate_dfa_path", "minimize_hopcroft"}
        /\ ~is_deterministic(aut)) =>
           /\ err # ""
           /\ err \notin {NoInitialKind, MalformedPostfixKind, InvalidRegexKind}
    /\ (/\ call \in {"simulate_dfa_path", "minimize_hopcroft"}
        /\ is_deterministic(aut)
        /\ aut.initial = None) =>
           /\ err # ""
           /\ err \notin {MalformedPostfixKind, InvalidRegexKind}
    /\ (call = "postfix_to_nfa" /\ err # "") => err # InvalidRegexKind

\* C16: determinize, minimize_hopcroft, simulate_nfa and simulate_dfa_path
\* leave the states, alphabet, initial state, accepting set and transitions of
\* their input automaton unchanged, and determinize and minimize_hopcroft
\* return a fresh automaton object, never the input object itself.
C16_InputUnchangedResultFresh ==
    /\ [](stage \in {"dfa", "refine", "min", "min2"} => sameObj = FALSE)
    /\ [][/\ stage = "nfa" => nfa' = nfa
          /\ stage \in {"dfa", "refine"} => (dfa' = dfa /\ nfa' = nfa)
          /\ stage = "min" => min_dfa' = min_dfa]_vars

\* The states of a DFA in the order a first-in-first-out traversal from its
\* initial state meets them, the symbols taken in sorted order.
RECURSIVE BfsSyms(_, _, _, _)
BfsSyms(D, order, cur, syms) ==
    IF syms = <<>> THEN order
    ELSE LET d == target(D, cur, Head(syms))
         IN  IF d = None \/ InList(d, order)
             THEN BfsSyms(D, order, cur, Tail(syms))
             ELSE BfsSyms(D, Append(order, d), cur, Tail(syms))

RECURSIVE BfsOrder(_, _, _)
BfsOrder(D, order, head) ==
    IF head > Len(order) THEN order
    ELSE BfsOrder(D, BfsSyms(D, order, order[head], sorted(D.alphabet)),
                  head + 1)

\* C18: for every automaton N with an initial state, determinize names the
\* start state of its result q0 and every further state qN where N is the
\* number of DFA states discovered before it, discovery being first-in-
\* first-out over the worklist with the symbols of the alphabet in sorted
\* order.
C18_DeterminizeNaming ==
    stage = "dfa" =>
        /\ dfa.initial = QName(0)
        /\ BfsOrder(dfa, <<dfa.initial>>, 1) =
               [i \in 1..Cardinality(dfa.states) |-> QName(i - 1)]

\* The characters of a regex read as the code reads them: a backslash that
\* is not itself escaped starts an escape, and the character after it is
\* escaped.
EscapeStart(r, i) ==
    /\ r[i] = "\\"
    /\ LET run == CHOOSE j \in 1..i :
                      /\ \A m \in j..i : r[m] = "\\"
                      /\ j = 1 \/ r[j - 1] # "\\"
       IN  (i - run) % 2 = 0

Escaped(r, i) == i > 1 /\ EscapeStart(r, i - 1)

PlainAt(r, i, chars) == r[i] \in chars /\ ~Escaped(r, i)

PlainCount(r, k, c) == Cardinality({i \in 1..k : PlainAt(r, i, {c})})

Unbalanced(r, open, close) ==
    \/ \E k \in 1..Len(r) : PlainCount(r, k, close) > PlainCount(r, k, open)
    \/ PlainCount(r, Len(r), open) # PlainCount(r, Len(r), close)

TrailingBackslash(r) == r # <<>> /\ EscapeStart(r, Len(r))

InvalidEscape(r) ==
    \E i \in 1..(Len(r) - 1) :
        EscapeStart(r, i) /\ r[i + 1] \notin VALID_ESCAPE_CHARS

MisplacedUnary(r) ==
    \E i \in 1..Len(r) :
        /\ PlainAt(r, i, {"*", "+", "?"})
        /\ \/ i = 1
           \/ PlainAt(r, i - 1, {"|", "("})
           \/ PlainAt(r, i - 1, {"*", "+", "?"})

MisplacedBar(r) ==
    \E i \in 1..Len(r) :
        /\ PlainAt(r, i, {"|"})
        /\ \/ i = 1
           \/ i = Len(r)
           \/ PlainAt(r, i - 1, {"|", "("})
           \/ r[i + 1] \in {"|", ")"}

\* C19: to_postfix fails with RegexValidationError and returns no postfix
\* when the regex is empty, is longer than 1000 characters, has unbalanced
\* (), [] or {}, ends in a backslash that escapes nothing, holds an escape of
\* a character outside the allowed set, has an unescaped *, + or ? at
\* position 0, directly after an unescaped | or ( or directly after another
\* unescaped unary operator, or has an unescaped | at either end, directly
\* after | or ( or directly before | or ); and a regex of exactly 1000
\* characters is not rejected for its length.
C19_ValidationRejects ==
    stage # "regex" =>
        /\ (\/ regex = <<>>
            \/ Len(regex) > 1000
            \/ Unbalanced(regex, "(", ")")
            \/ Unbalanced(regex, "[", "]")
            \/ Unbalanced(regex, "{", "}")
            \/ TrailingBackslash(regex)
            \/ InvalidEscape(regex)
            \/ MisplacedUnary(regex)
            \/ MisplacedBar(regex))
           => /\ stage = "failed_to_postfix"
              /\ err = "RegexValidationError"
              /\ postfix = <<>>
        /\ Len(regex) = 1000 => validate_regex_rule(regex) # "length"

\* to_postfix has rejected a text whose only fault is its last backslash,
\* which follows an escaped backslash.
C19_Witness ==
    /\ stage = "failed_to_postfix"
    /\ Len(regex) = 4
    /\ TrailingBackslash(regex)
    /\ regex[2] = "\\"
    /\ regex[3] = "\\"
    /\ ~InvalidEscape(regex)
    /\ ~MisplacedUnary(regex)
    /\ ~MisplacedBar(regex)
    /\ ~Unbalanced(regex, "(", ")")
    /\ ~Unbalanced(regex, "[", "]")
    /\ ~Unbalanced(regex, "{", "}")

\* The postfix form of a regex over literals, ε, parentheses, |, *, + and ?,
\* by recursive descent on the grammar
\*     alternation   ::= concatenation ("|" concatenation)*
\*     concatenation ::= repetition repetition*
\*     repetition    ::= atom ("*" | "+" | "?")*
\*     atom          ::= literal | "ε" | "e" | "(" alternation ")"
\* Each operator reads from position pos and gives [ok, out, pos]: whether it
\* found its phrase, the postfix of the phrase, and the position after it.
NoPhrase == [ok |-> FALSE, out |-> <<>>, pos |-> 0]

Phrase(out, pos) == [ok |-> TRUE, out |-> out, pos |-> pos]

RECURSIVE PostfixOfAlternation(_, _)
RECURSIVE PostfixOfConcatenation(_, _)
RECURSIVE PostfixOfRepetition(_, _)

PostfixOfGroup(r, inner) ==
    IF ~inner.ok THEN NoPhrase
    ELSE IF inner.pos > Len(r) THEN NoPhrase
    ELSE IF r[inner.pos] # ")" THEN NoPhrase
    ELSE Phrase(inner.out, inner.pos + 1)

PostfixOfAtom(r, pos) ==
    IF pos > Len(r) THEN NoPhrase
    ELSE IF r[pos] = "(" THEN PostfixOfGroup(r, PostfixOfAlternation(r, pos + 1))
    ELSE IF r[pos] \in {")", "|", "*", "+", "?"} THEN NoPhrase
    ELSE Phrase(<<IF r[pos] \in {"e", "ε"} THEN "ε" ELSE r[pos]>>, pos + 1)

RECURSIVE WithUnaryOperators(_, _)
WithUnaryOperators(r, atom) ==
    IF ~atom.ok THEN NoPhrase
    ELSE IF atom.pos <= Len(r) /\ r[atom.pos] \in {"*", "+", "?"}
    THEN WithUnaryOperators(r, Phrase(Append(atom.out, r[atom.pos]),
                                      atom.pos + 1))
    ELSE atom

PostfixOfRepetition(r, pos) == WithUnaryOperators(r, PostfixOfAtom(r, pos))

JoinPhrases(left, right, operator) ==
    IF ~right.ok THEN NoPhrase
    ELSE Phrase(left.out \o right.out \o <<operator>>, right.pos)

RECURSIVE WithConcatenated(_, _)
WithConcatenated(r, left) ==
    IF ~left.ok THEN NoPhrase
    ELSE IF left.pos <= Len(r) /\ r[left.pos] \notin {"|", ")"}
    THEN WithConcatenated(
             r, JoinPhrases(left, PostfixOfRepetition(r, left.pos), "."))
    ELSE left

PostfixOfConcatenation(r, pos) ==
    WithConcatenated(r, PostfixOfRepetition(r, pos))

RECURSIVE WithAlternatives(_, _)
WithAlternatives(r, left) ==
    IF ~left.ok THEN NoPhrase
    ELSE IF left.pos <= Len(r) /\ r[left.pos] = "|"
    THEN WithAlternatives(
             r, JoinPhrases(left, PostfixOfConcatenation(r, left.pos + 1), "|"))
    ELSE left

PostfixOfAlternation(r, pos) ==
    WithAlternatives(r, PostfixOfConcatenation(r, pos))

WholeText(r, phrase) == phrase.ok /\ phrase.pos = Len(r) + 1

\* C20: for every regex built only from literals, ε, parentheses, |, *, +
\* and ? that passes validation, to_postfix returns the postfix form of the
\* expression under the precedence | < implicit concatenation < postfix
\* unary operators, | and concatenation left-associative, one explicit "."
\* for each implicit concatenation, and both "e" and ε emitted as ε.
C20_PostfixForm ==
    (entry = "regex" /\ stage \notin {"regex", "failed_to_postfix"}) =>
        /\ WholeText(regex, PostfixOfAlternation(regex, 1))
        /\ postfix = PostfixOfAlternation(regex, 1).out

\* The literal symbols a regex stands for when it is made of escapes of the
\* allowed set and of the literal "a" alone: one symbol for each escape.
RECURSIVE EscapeLiterals(_, _)
EscapeLiterals(r, i) ==
    IF i > Len(r) THEN <<>>
    ELSE IF r[i] = "\\"
    THEN <<EscapedChar(r[i + 1])>> \o EscapeLiterals(r, i + 2)
    ELSE <<r[i]>> \o EscapeLiterals(r, i + 1)

OnlyEscapesAndLiterals(r) ==
    /\ r # <<>>
    /\ Len(r) <= MaxParserLen
    /\ ~TrailingBackslash(r)
    /\ ~InvalidEscape(r)
    /\ \A i \in 1..Len(r) : r[i] \in {"a", "\\"} \/ Escaped(r, i)
    /\ \E i \in 1..Len(r) : EscapeStart(r, i)

\* The postfix of the concatenation of operands, left-associative.
RECURSIVE ConcatenationOf(_)
ConcatenationOf(operands) ==
    IF Len(operands) <= 1 THEN operands
    ELSE ConcatenationOf(SubSeq(operands, 1, Len(operands) - 1))
             \o <<operands[Len(operands)], ".">>

\* C21: every escape sequence of the allowed set becomes one literal symbol
\* of the postfix stream: \n, \t and \r become their control characters and
\* any other escape yields the escaped character as a literal operand, never
\* as an operator, a parenthesis or a rejected character.  On a regex made
\* of such escapes and of the literal "a", to_postfix therefore returns the
\* concatenation of the symbols.
C21_EscapesAreLiterals ==
    (stage # "regex" /\ OnlyEscapesAndLiterals(regex)) =>
        /\ stage # "failed_to_postfix"
        /\ postfix = ConcatenationOf(EscapeLiterals(regex, 1))

\* Strings of at most two characters over two letters, a digit, a character
\* that is neither, and the letter that doubles as the epsilon marker.
WildcardSample == {"a", "e", "Z", "7", "-"}

WildcardStrings == Strings(WildcardSample, 2)

\* C22: the wildcard is an alternation over the ASCII letters and digits:
\* the automaton built from the regex "." accepts a string if and only if
\* the string is exactly one character long and that character is an ASCII
\* letter or a digit.
C22_WildcardAcceptance ==
    (stage = "nfa" /\ regex = <<".">>) =>
        \A x \in WildcardStrings :
            simulate_nfa(nfa, x) <=>
                /\ Len(x) = 1
                /\ x[1] \in Range(ascii_letters) \cup Range(digits)

\* s comes before t in the order of their names.
NameBefore(s, t) ==
    \E i, j \in 1..Len(NameOrder) :
        i < j /\ NameOrder[i] = s /\ NameOrder[j] = t

\* f renames the states of A to the numbers 0..N-1, the initial state to 0
\* and the others in the order of their names, and B is A renamed by f.
SequentialRenaming(A, B, f) ==
    /\ \A s, t \in A.states : f[s] = f[t] => s = t
    /\ A.initial # None => f[A.initial] = "0"
    /\ \A s, t \in A.states \ {A.initial} :
           NameBefore(s, t) => StateNumber(f[s]) < StateNumber(f[t])
    /\ B.states = {f[s] : s \in A.states}
    /\ Cardinality(B.states) = Cardinality(A.states)
    /\ B.initial = IF A.initial = None THEN None ELSE f[A.initial]
    /\ B.accepts = {f[s] : s \in A.accepts}
    /\ B.transitions = {<<f[t[1]], t[2], f[t[3]]>> : t \in A.transitions}

StateNumbers(A) == {ToString(i) : i \in 0..(Cardinality(A.states) - 1)}

\* C23: relabel_sequential, and automaton_to_dict through it, renumbers the
\* states of any automaton as 0..N-1 with the initial state mapped to 0 and
\* the remaining states numbered in ascending order of their previous string
\* names; the renaming is a bijection that preserves the number of states,
\* the initial state, the accepting set and every transition.
C23_RelabelSequential ==
    [][call' = "relabel_sequential" =>
           /\ err' = ""
           /\ \E f \in [aut.states -> StateNumbers(aut)] :
                  SequentialRenaming(aut, aut', f)
           /\ ESTADOS(aut') = [i \in 1..Cardinality(aut.states) |-> i - 1]
           /\ INICIO(aut') = IF aut.initial = None THEN <<>> ELSE <<0>>
           /\ Len(ACEPTACION(aut')) = Cardinality(aut.accepts)]_vars

\* C24: running to_postfix, postfix_to_nfa, determinize, minimize_hopcroft and
\* automaton_to_dict again on the same regex gives the serialized records
\* the first run gave for the NFA, the DFA and the minimal DFA, the state
\* numbering and the order of the TRANSICIONES triples included: no output
\* depends on the iteration order of an unordered set.
C24_ExportDeterministic ==
    (entry = "regex" /\ stage = "exported") =>
        \A n \in automaton_to_dict(nfa, InsertionLabels(nfa)),
           d \in automaton_to_dict(dfa, InsertionLabels(dfa)),
           m \in automaton_to_dict(min_dfa, MinDfaLabels(dfa, P)) :
            exported = <<n, d, m>>

\* C25: for a deterministic automaton with an initial state and no accepting
\* state, minimize_hopcroft ends with a partition of exactly one block, that
\* block is not placed in the initial worklist, and the returned automaton
\* has exactly one state, which is non-accepting and has no outgoing
\* transition.
C25_NoAcceptingState ==
    dfaIn.accepts = {} =>
        /\ stage = "refine" => ~InList(dfa.states, InitialW(dfa))
        /\ stage = "min" =>
               /\ Len(P) = 1
               /\ Cardinality(min_dfa.states) = 1
               /\ min_dfa.accepts = {}
               /\ min_dfa.transitions = {}

\* The symbols that label some transition of D.
UsedSymbols(D) == {t[2] : t \in D.transitions}

\* Every state of D has a transition on every symbol D uses.
CompleteOnUsedSymbols(D) ==
    \A s \in D.states, c \in UsedSymbols(D) : get_transitions(D, s, c) # {}

\* M has exactly one state, accepting, with a self-loop on every symbol of
\* syms.
OneAcceptingLoopState(M, syms) ==
    /\ Cardinality(M.states) = 1
    /\ M.accepts = M.states
    /\ \A c \in syms : \E s \in M.states : <<s, c, s>> \in M.transitions

\* C26: for a deterministic automaton with an initial state all of whose
\* states are accepting, and whose reachable states each have a transition
\* on every symbol that labels a transition of a reachable state,
\* minimize_hopcroft yields a single block, and the returned automaton has
\* exactly one accepting state with a self-loop on every such symbol.
C26_AllAccepting ==
    (/\ stage = "min"
     /\ dfaIn.accepts = dfaIn.states
     /\ CompleteOnUsedSymbols(dfa)) =>
        /\ Len(P) = 1
        /\ OneAcceptingLoopState(min_dfa, UsedSymbols(dfa))

\* C26 as stated, for every deterministic automaton all of whose states are
\* accepting and every symbol that labels a transition of the input.
C26_AllAcceptingAnyDfa ==
    (stage = "min" /\ dfaIn.accepts = dfaIn.states) =>
        /\ Len(P) = 1
        /\ OneAcceptingLoopState(min_dfa, UsedSymbols(dfaIn))

\* minimize_hopcroft has merged several accepting states, complete on the
\* symbols they use, into the state m0.
C26_Witness ==
    /\ stage = "min"
    /\ dfaIn.accepts = dfaIn.states
    /\ CompleteOnUsedSymbols(dfa)
    /\ Cardinality(dfa.states) >= 2
    /\ UsedSymbols(dfa) # {}
    /\ min_dfa.states = {"m0"}

\* C27: in minimize_hopcroft a block of exactly one state keeps the name of
\* that state, a block of several states takes a fresh name m0, m1, ... in
\* the order of the final partition, and distinct blocks always receive
\* distinct names, so the result has exactly one state per block, also when
\* the input already has a state named m0.
C27_BlockNaming ==
    stage = "min" =>
        /\ \A i \in 1..Len(P) :
               /\ Cardinality(P[i]) = 1 => BlockNames(P, 1, 0)[i] \in P[i]
               /\ Cardinality(P[i]) > 1 =>
                      /\ BlockNames(P, 1, 0)[i] \notin dfa.states
                      /\ BlockNames(P, 1, 0)[i] =
                             MName(Cardinality({j \in 1..(i - 1) :
                                                   Cardinality(P[j]) # 1}))
        /\ \A i, j \in 1..Len(P) :
               i # j => BlockNames(P, 1, 0)[i] # BlockNames(P, 1, 0)[j]
        /\ Cardinality(min_dfa.states) = Len(P)

\* The smallest superset of T closed under the epsilon-transitions of A.
ClosedUnderEpsilon(A, S) ==
    \A t \in A.transitions : (t[2] = EPSILON /\ t[1] \in S) => t[3] \in S

SmallestClosedSuperset(A, T) ==
    {s \in BuildNames :
        \A S \in SUBSET BuildNames :
            (T \subseteq S /\ ClosedUnderEpsilon(A, S)) => s \in S}

\* C28: after any interleaving of add_state, add_transition and
\* epsilon_closure calls on an automaton, epsilon_closure(T) returns exactly
\* the smallest superset of T closed under the epsilon-transitions the
\* automaton has at that moment: the memo never holds a result computed
\* before a later epsilon-edge was added, and modifying a returned set does
\* not change later results.
C28_EpsilonClosureMemo ==
    /\ [](\A e \in epsilon_cache :
              e[2] = SmallestClosedSuperset(aut, {e[1]}))
    /\ [][call' = "epsilon_closure" =>
              returned'.closure =
                  SmallestClosedSuperset(aut', returned'.states)]_vars

\* epsilon_closure has returned, for one state, a closure of two states and
\* the memo holds it.
C28_Witness ==
    /\ call = "epsilon_closure"
    /\ Cardinality(returned.states) = 1
    /\ Cardinality(returned.closure) = 2
    /\ \E e \in epsilon_cache : returned.states = {e[1]} /\ e[2] = returned.closure

\* The states of A that a path from its initial state reaches: the members
\* of every set that holds the initial state and is closed under the
\* transitions.
ReachableStates(A) ==
    {s \in A.states :
        \A S \in SUBSET A.states :
            (/\ A.initial \in S
             /\ \A t \in A.transitions :
                    (t[1] \in S /\ t[3] \in A.states) => t[3] \in S)
                => s \in S}

\* C29: at every iteration of the refinement loop of minimize_hopcroft, the
\* blocks of P are pairwise disjoint and their union is the set of reachable
\* states of the input, no block contains both an accepting and a
\* non-accepting state, and every block waiting in the worklist W is a
\* block of the current P.
C29_PartitionInvariant ==
    stage = "refine" =>
        /\ \A i, j \in 1..Len(P) : i # j => P[i] \cap P[j] = {}
        /\ UNION {P[i] : i \in 1..Len(P)} = ReachableStates(dfaIn)
        /\ \A i \in 1..Len(P) :
               P[i] \subseteq dfaIn.accepts \/ P[i] \cap dfaIn.accepts = {}
        /\ \A k \in 1..Len(W) : InList(W[k], P)

\* The refinement loop has split blocks and still has blocks waiting.
C29_Witness ==
    /\ stage = "refine"
    /\ Len(P) >= 3
    /\ Len(W) >= 2
    /\ \A i \in 1..Len(P) : P[i] # {}

\* The number of non-empty blocks of a partition.
NonEmptyBlocks(Pc) == Cardinality({i \in 1..Len(Pc) : Pc[i] # {}})

====
